---- MODULE Spec2Model ----
(***************************************************************************)
(* FabEdge operator: the connector controller                              *)
(* (pkg/operator/controllers/connector/controller.go).                     *)
(*                                                                         *)
(* The cluster API (nodes, the connector ConfigMap), the endpoint store    *)
(* and the controller-runtime manager are the environment; the controller  *)
(* is the node cache, the connector endpoint, the reconciler and the       *)
(* publication loop.                                                       *)
(***************************************************************************)
EXTENDS Integers, Sequences, FiniteSets, TLC

(***************************************************************************)
(* Bounds of the model.                                                    *)
(***************************************************************************)
\* How many changes the environment makes (node events, store writes by the
\* other controllers, foreign writes to the ConfigMap, failing API calls).
MaxEnvSteps == 2

(***************************************************************************)
(* The universe the inputs are drawn from.                                 *)
(***************************************************************************)
NonEdgeNodes == {"n1", "n2"}
EdgeNodes == {"e1"}
NodeNames == NonEdgeNodes \cup EdgeNodes

NodeIP(n) ==
    CASE n = "n1" -> "10.0.0.1"
      [] n = "n2" -> "10.0.0.2"
      [] OTHER -> "10.0.0.9"

NodeCIDR(n) ==
    CASE n = "n1" -> "10.244.1.0/24"
      [] n = "n2" -> "10.244.2.0/24"
      [] OTHER -> "10.244.9.0/24"

\* Config of the controller (Config, lines 53-65): fixed identity, and the two
\* settings the claims depend on drawn in Init.
ConnectorID == "C=CN, O=fabedge.io, CN=cloud-connector"
ConnectorName == "cloud-connector"
ConnectorPublicAddresses == <<"connector.fabedge.io">>
ProvidedSubnets == <<"192.168.0.0/16">>

\* Byte-wise ascending order of every name the model sorts.
StringsAscending == <<"cloud-connector", "e1", "edge1", "edge2", "n1", "n2">>

Rank(s) == CHOOSE i \in 1..Len(StringsAscending) : StringsAscending[i] = s

\* A node object of the cluster API (corev1.Node projected on what the
\* controller reads): nodeutil.GetIP, nodeutil.GetPodCIDRs,
\* DeletionTimestamp, nodeutil.IsEdgeNode.
NoNode == [exists |-> FALSE, ip |-> "", podCIDRs |-> <<>>, deleting |-> FALSE, edge |-> FALSE]

NodeObject(n, ip, cidrs, deleting) ==
    [exists |-> TRUE, ip |-> ip, podCIDRs |-> cidrs, deleting |-> deleting,
     edge |-> n \in EdgeNodes]

\* What a node can look like: complete, without an IP yet, without PodCIDRs yet.
NodeObjects(n) ==
    IF n \in EdgeNodes
    THEN {NodeObject(n, NodeIP(n), <<NodeCIDR(n)>>, FALSE)}
    ELSE {NodeObject(n, NodeIP(n), <<NodeCIDR(n)>>, FALSE),
          NodeObject(n, "", <<NodeCIDR(n)>>, FALSE),
          NodeObject(n, NodeIP(n), <<>>, FALSE)}

\* Endpoints the other controllers and the HTTP handler save in the store.
Endpoint(id, name, subnet) ==
    [ID |-> id, Name |-> name, PublicAddresses |-> <<name>>,
     Subnets |-> <<subnet>>, NodeSubnets |-> <<>>, Type |-> "EdgeNode"]

StoreEndpoints ==
    { Endpoint("id-edge1", "edge1", "2.2.1.0/24"),
      Endpoint("id-edge2", "edge2", "2.2.2.0/24"),
      Endpoint(ConnectorID, "edge2", "2.2.3.0/24"),
      Endpoint("id-other", ConnectorName, "2.2.0.0/24") }

\* Keys of ConfigMap.Data: constants.ConnectorConfigFileName and a foreign key.
ConnectorConfigFileName == "tunnels.yaml"
OtherKey == "other"
\* The zero value a Go map lookup gives for a missing key; no serialization
\* is empty.
EmptyString == <<>>

VARIABLES
    apiNodes,          \* cluster API: node name -> node object
    cm,                \* cluster API: the connector ConfigMap
    store,             \* endpoint store: name -> Endpoint
    providedSubnets,   \* Config.ProvidedSubnets
    collectPodCIDRs,   \* Config.CollectPodCIDRs
    mgr,               \* what AddToManager registered and returned
    ctl,               \* controller: nodeNameSet, nodeCache, connectorEndpoint
    queue,             \* reconcile requests pending in the workqueue
    crashed,           \* the process died of a panic
    lastSync,          \* what the last updateConfigMapIfNeeded did
    published,         \* a NetworkConf has been written to the ConfigMap
    listed,            \* non-edge nodes with IP and PodCIDRs in the initial List
    removed,           \* nodes a reconcile removed before the first publication
    envSteps           \* environment changes made so far

\* The controller at the grain of its mutex (sync.RWMutex, lines 86, 257-258,
\* 274-275, 327-328): the reconciler and the callers of getConnectorEndpoint
\* are threads that take one step at a time.
VARIABLES
    mux,               \* ctl.mux: the writer holds it, or so many readers do
    heap,              \* backing arrays of the slices, by address
    shared,            \* nodeNameSet, nodeCache and the slice headers of connectorEndpoint
    reconciler,        \* the reconciler thread: position and locals
    getters,           \* the threads calling getConnectorEndpoint: position and locals
    built              \* the endpoints rebuildConnectorEndpoint has computed

mutexVars == <<mux, heap, shared, reconciler, getters, built>>

controllerVars == <<apiNodes, cm, store, providedSubnets, collectPodCIDRs, mgr, ctl, queue,
                    crashed, lastSync, published, listed, removed, envSteps>>

\* The packet-filter rule builder (IPTablesHelper, src/unnamed/part_000) and
\* the restore tool it runs.
VARIABLES
    protocol,          \* h.protocol
    ruleSets,          \* h.ruleSets
    calls,             \* calls of the builder's methods so far
    cleared,           \* ClearAllRules has been called
    twin,              \* ruleSets of a builder created at the last ClearAllRules
                       \* and given the same calls since
    restore,           \* the restore tool: the invocation in progress
    live,              \* the live tables: the invocation each one was committed by
    lastReplace        \* what ReplaceRules has just returned

helperVars == <<protocol, ruleSets, calls, cleared, twin, restore, live, lastReplace>>

\* The agent's argument map (types.AgentArgumentMap) and its caller.
VARIABLES
    argMap,            \* the map: flag name -> value
    argSteps,          \* Set and Delete calls so far
    argv,              \* what ArgumentArray returned for the map as it is
    environ            \* os.Environ(): the "NAME=value" strings of the process

argMapVars == <<argMap, argSteps, argv, environ>>

\* The certificate service of the operator (POST /api/sign-cert) and its
\* client.
VARIABLES
    tokensUsed,        \* the tokens the server has accepted
    issued,            \* the certificates the server has issued, with their tokens
    posts,             \* requests the server has received
    exchange           \* the last request, its response, and what the client returned

certVars == <<tokensUsed, issued, posts, exchange>>

\* What a step of one component leaves alone: the other components.
notControllerVars == <<mutexVars, helperVars, argMapVars, certVars>>
notMutexVars == <<controllerVars, helperVars, argMapVars, certVars>>
notHelperVars == <<controllerVars, mutexVars, argMapVars, certVars>>

notArgMapVars == <<controllerVars, mutexVars, helperVars, certVars>>

vars == <<controllerVars, mutexVars, helperVars, argMapVars, certVars>>

clusterVars == <<apiNodes, cm, store>>
configVars == <<providedSubnets, collectPodCIDRs>>
historyVars == <<lastSync, published, listed, removed>>

(***************************************************************************)
(* stringset.Set.Values(): the members as a slice, in ascending order.     *)
(***************************************************************************)
RECURSIVE Values(_)
Values(s) ==
    IF s = {} THEN <<>>
    ELSE LET m == CHOOSE x \in s : \A y \in s : Rank(x) <= Rank(y)
         IN <<m>> \o Values(s \ {m})

(***************************************************************************)
(* The endpoint store (pkg/operator/store).                                *)
(***************************************************************************)
GetAllEndpointNames == DOMAIN store

RECURSIVE GetEndpoints(_)
GetEndpoints(names) ==
    IF names = <<>> THEN <<>>
    ELSE IF Head(names) \in DOMAIN store
         THEN <<store[Head(names)]>> \o GetEndpoints(Tail(names))
         ELSE GetEndpoints(Tail(names))

StoreSave(e) == [n \in DOMAIN store \cup {e.Name} |-> IF n = e.Name THEN e ELSE store[n]]

StoreDelete(name) == [n \in DOMAIN store \ {name} |-> store[n]]

(***************************************************************************)
(* netconf: the NetworkConf artifact and its YAML serialization.           *)
(***************************************************************************)
ConvertToTunnelEndpoint(e) ==
    [id |-> e.ID, name |-> e.Name, publicAddresses |-> e.PublicAddresses,
     subnets |-> e.Subnets, nodeSubnets |-> e.NodeSubnets, type |-> e.Type]

MarshalEndpoint(t) ==
    << <<"id", t.id>>, <<"name", t.name>>, <<"publicAddresses", t.publicAddresses>>,
       <<"subnets", t.subnets>>, <<"nodeSubnets", t.nodeSubnets>>, <<"type", t.type>> >>

\* yaml.Marshal(conf): one document, keys tunnelEndpoint and peers.
Marshal(conf) ==
    << <<"tunnelEndpoint", MarshalEndpoint(conf.TunnelEndpoint)>>,
       <<"peers", [i \in 1..Len(conf.Peers) |-> MarshalEndpoint(conf.Peers[i])]>> >>

(***************************************************************************)
(* The ConfigMap: absent, or present with Data nil or a map.               *)
(***************************************************************************)
NoConfigMap == [exists |-> FALSE, nilData |-> TRUE, data |-> <<>>]

ConfigMapOf(data) == [exists |-> TRUE, nilData |-> FALSE, data |-> data]

NilDataConfigMap == [exists |-> TRUE, nilData |-> TRUE, data |-> <<>>]

\* cm.Data[key]: the zero value for a missing key or a nil map.
DataLookup(c, key) ==
    IF ~c.nilData /\ key \in DOMAIN c.data THEN c.data[key] ELSE EmptyString

DataAssign(c, key, value) ==
    [c EXCEPT !.data = [k \in DOMAIN c.data \cup {key} |->
                            IF k = key THEN value ELSE c.data[k]]]

(***************************************************************************)
(* The controller: node cache and connector endpoint.                      *)
(***************************************************************************)
\* types.Endpoint{} and the controller AddToManager constructs (lines 92-107).
ZeroEndpoint ==
    [ID |-> "", Name |-> "", PublicAddresses |-> <<>>, Subnets |-> <<>>,
     NodeSubnets |-> <<>>, Type |-> ""]

NewController ==
    [nodeNameSet |-> {}, nodeCache |-> <<>>, connectorEndpoint |-> ZeroEndpoint]

\* ctl.nodeCache[nodeName]: the zero Node for a missing key.
CacheLookup(cache, n) ==
    IF n \in DOMAIN cache THEN cache[n] ELSE [Name |-> "", IP |-> "", PodCIDRs |-> <<>>]

RECURSIVE AppendPodCIDRs(_, _)
AppendPodCIDRs(names, cache) ==
    IF names = <<>> THEN <<>>
    ELSE CacheLookup(cache, Head(names)).PodCIDRs \o AppendPodCIDRs(Tail(names), cache)

RECURSIVE AppendIPs(_, _)
AppendIPs(names, cache) ==
    IF names = <<>> THEN <<>>
    ELSE <<CacheLookup(cache, Head(names)).IP>> \o AppendIPs(Tail(names), cache)

RECURSIVE Reverse(_)
Reverse(q) == IF q = <<>> THEN <<>> ELSE Reverse(Tail(q)) \o <<Head(q)>>

\* Mutant: the nodes are taken in another order than ascending name order.
rebuildConnectorEndpointUnordered(c) ==
    LET names == Reverse(Values(c.nodeNameSet))
    IN [c EXCEPT !.connectorEndpoint =
            [ID |-> ConnectorID,
             Name |-> ConnectorName,
             PublicAddresses |-> ConnectorPublicAddresses,
             Subnets |-> providedSubnets \o AppendPodCIDRs(names, c.nodeCache),
             NodeSubnets |-> AppendIPs(names, c.nodeCache),
             Type |-> ""]]

rebuildConnectorEndpoint(c) ==
    LET names == Values(c.nodeNameSet)
    IN [c EXCEPT !.connectorEndpoint =
            [ID |-> ConnectorID,
             Name |-> ConnectorName,
             PublicAddresses |-> ConnectorPublicAddresses,
             Subnets |-> providedSubnets \o AppendPodCIDRs(names, c.nodeCache),
             NodeSubnets |-> AppendIPs(names, c.nodeCache),
             Type |-> ""]]

\* Mutant: the PodCIDRs are cached whatever CollectPodCIDRs says.
addNodeKeepingPodCIDRs(c, name, node, rebuild) ==
    IF node.ip = "" \/ node.podCIDRs = <<>> THEN c
    ELSE IF name \in c.nodeNameSet THEN c
    ELSE LET entry == [Name |-> name, IP |-> node.ip, PodCIDRs |-> node.podCIDRs]
             added == [c EXCEPT
                         !.nodeNameSet = @ \cup {name},
                         !.nodeCache = [k \in DOMAIN c.nodeCache \cup {name} |->
                                           IF k = name THEN entry ELSE c.nodeCache[k]]]
         IN IF rebuild THEN rebuildConnectorEndpoint(added) ELSE added

\* Mutant: only a node without an IP is skipped.
addNodeWithoutPodCIDRs(c, name, node, rebuild) ==
    IF node.ip = "" THEN c
    ELSE IF name \in c.nodeNameSet THEN c
    ELSE LET podCIDRs == IF collectPodCIDRs THEN node.podCIDRs ELSE <<>>
             entry == [Name |-> name, IP |-> node.ip, PodCIDRs |-> podCIDRs]
             added == [c EXCEPT
                         !.nodeNameSet = @ \cup {name},
                         !.nodeCache = [k \in DOMAIN c.nodeCache \cup {name} |->
                                           IF k = name THEN entry ELSE c.nodeCache[k]]]
         IN IF rebuild THEN rebuildConnectorEndpoint(added) ELSE added

addNode(c, name, node, rebuild) ==
    IF node.ip = "" \/ node.podCIDRs = <<>> THEN c
    ELSE IF name \in c.nodeNameSet THEN c
    ELSE LET podCIDRs == IF collectPodCIDRs THEN node.podCIDRs ELSE <<>>
             entry == [Name |-> name, IP |-> node.ip, PodCIDRs |-> podCIDRs]
             added == [c EXCEPT
                         !.nodeNameSet = @ \cup {name},
                         !.nodeCache = [k \in DOMAIN c.nodeCache \cup {name} |->
                                           IF k = name THEN entry ELSE c.nodeCache[k]]]
         IN IF rebuild THEN rebuildConnectorEndpoint(added) ELSE added

\* Mutant: the node leaves the cache and the endpoint is not rebuilt.
removeNodeWithoutRebuild(c, name) ==
    [c EXCEPT !.nodeNameSet = @ \ {name},
              !.nodeCache = [k \in DOMAIN c.nodeCache \ {name} |-> c.nodeCache[k]]]

removeNode(c, name) ==
    rebuildConnectorEndpoint(
        [c EXCEPT !.nodeNameSet = @ \ {name},
                  !.nodeCache = [k \in DOMAIN c.nodeCache \ {name} |-> c.nodeCache[k]]])

\* The loop of initializeConnectorEndpoint over nodes.Items.
RECURSIVE seedNodes(_, _)
seedNodes(c, names) ==
    IF names = <<>> THEN c
    ELSE LET node == apiNodes[Head(names)]
         IN seedNodes(IF node.edge THEN c ELSE addNode(c, Head(names), node, FALSE),
                      Tail(names))

ListNodes == Values({n \in NodeNames : apiNodes[n].exists})

\* Mutant: the cache is seeded and the endpoint is not built.
initializeWithoutRebuild(c) == seedNodes(c, ListNodes)

initializeConnectorEndpoint(c) == rebuildConnectorEndpoint(seedNodes(c, ListNodes))

getConnectorEndpoint == ctl.connectorEndpoint

getPeers ==
    LET endpoints == GetEndpoints(Values(GetAllEndpointNames))
    IN [i \in 1..Len(endpoints) |-> ConvertToTunnelEndpoint(endpoints[i])]

(***************************************************************************)
(* Startup: AddToManager, then the caller starts the manager.              *)
(***************************************************************************)
NoConf == [TunnelEndpoint |-> ConvertToTunnelEndpoint(ZeroEndpoint), Peers |-> <<>>]

NoSync == [ran |-> FALSE, conf |-> NoConf, get |-> "none", writes |-> <<>>]

\* phase: new, added (AddToManager returned no error), started, failed;
\* result: the step of AddToManager that failed, or ok.
NotRegistered ==
    [phase |-> "new", runnable |-> FALSE, watch |-> FALSE, getter |-> FALSE,
     result |-> "none"]

\* The steps of AddToManager that can return an error, in order.
AddToManagerOutcomes == {"listError", "addError", "newError", "watchError", "ok"}

\* The non-edge nodes with an IP and PodCIDRs that a List returns now.
ListedComplete ==
    {n \in NodeNames : /\ apiNodes[n].exists /\ ~apiNodes[n].edge
                       /\ apiNodes[n].ip # "" /\ apiNodes[n].podCIDRs # <<>>}

\* Mutant: the error of the initial List is not returned.
AddToManagerIgnoringListError(outcome) ==
    /\ mgr.phase = "new"
    /\ IF outcome = "listError"
       THEN /\ mgr' = [phase |-> "added", runnable |-> TRUE, watch |-> TRUE,
                       getter |-> TRUE, result |-> outcome]
            /\ UNCHANGED <<ctl, listed>>
       ELSE /\ ctl' = initializeConnectorEndpoint(ctl)
            /\ listed' = ListedComplete
            /\ mgr' = [phase |-> IF outcome = "ok" THEN "added" ELSE "failed",
                       runnable |-> outcome \in {"newError", "watchError", "ok"},
                       watch |-> outcome = "ok",
                       getter |-> outcome \in {"watchError", "ok"},
                       result |-> outcome]
    /\ UNCHANGED <<clusterVars, configVars, queue, crashed, lastSync, published,
                   removed, envSteps>>
    /\ UNCHANGED notControllerVars

AddToManager(outcome) ==
    /\ mgr.phase = "new"
    /\ IF outcome = "listError"
       THEN /\ mgr' = [phase |-> "failed", runnable |-> FALSE, watch |-> FALSE,
                       getter |-> FALSE, result |-> outcome]
            /\ UNCHANGED <<ctl, listed>>
       ELSE /\ ctl' = initializeConnectorEndpoint(ctl)
            /\ listed' = ListedComplete
            /\ mgr' = [phase |-> IF outcome = "ok" THEN "added" ELSE "failed",
                       runnable |-> outcome \in {"newError", "watchError", "ok"},
                       watch |-> outcome = "ok",
                       getter |-> outcome \in {"watchError", "ok"},
                       result |-> outcome]
    /\ UNCHANGED <<clusterVars, configVars, queue, crashed, lastSync, published,
                   removed, envSteps>>
    /\ UNCHANGED notControllerVars

\* The caller starts the manager only when AddToManager returned no error; the
\* informer then delivers an Add event for every node that passes the
\* NonEdgeNodePredicate.
ManagerStart ==
    /\ mgr.phase = "added"
    /\ mgr' = [mgr EXCEPT !.phase = "started"]
    /\ queue' = IF mgr.watch
                THEN {n \in NodeNames : apiNodes[n].exists /\ ~apiNodes[n].edge}
                ELSE queue
    /\ UNCHANGED <<clusterVars, configVars, ctl, crashed, historyVars, envSteps>>
    /\ UNCHANGED notControllerVars

Running == mgr.phase = "started" /\ ~crashed

\* A change made by the environment, a failing API call included.
EnvStep == /\ envSteps < MaxEnvSteps
           /\ envSteps' = envSteps + 1

(***************************************************************************)
(* The reconciler.                                                         *)
(***************************************************************************)
onNodeRequest(n, getError) ==
    /\ Running /\ mgr.watch
    /\ n \in queue
    /\ IF getError
       THEN \* a Get error other than NotFound: returned, the request is requeued
            EnvStep /\ UNCHANGED <<ctl, queue, removed>>
       ELSE /\ UNCHANGED envSteps
            /\ queue' = queue \ {n}
            /\ IF ~apiNodes[n].exists \/ apiNodes[n].deleting
               THEN /\ ctl' = removeNode(ctl, n)
                    /\ removed' = IF published THEN removed ELSE removed \cup {n}
               ELSE /\ ctl' = addNode(ctl, n, apiNodes[n], TRUE)
                    /\ UNCHANGED removed
    /\ UNCHANGED <<clusterVars, configVars, mgr, crashed, lastSync, published, listed>>
    /\ UNCHANGED notControllerVars

(***************************************************************************)
(* The publication loop.                                                   *)
(***************************************************************************)
Write(op, payload, ok) == [op |-> op, payload |-> payload, ok |-> ok]

\* The NetworkConf updateConfigMapIfNeeded constructs (lines 157-161).
NetworkConf ==
    [TunnelEndpoint |-> ConvertToTunnelEndpoint(getConnectorEndpoint),
     Peers |-> getPeers]

updateConfigMapIfNeeded(getError, writeError) ==
    LET conf == NetworkConf
        configData == Marshal(conf)
        done(get, writes) == [ran |-> TRUE, conf |-> conf, get |-> get, writes |-> writes]
        apiCall(failed) == IF failed THEN EnvStep ELSE UNCHANGED envSteps
    IN IF getError
       THEN /\ apiCall(TRUE)
            /\ lastSync' = done("error", <<>>)
            /\ UNCHANGED <<cm, crashed, published>>
       ELSE IF ~cm.exists
       THEN /\ apiCall(writeError)
            /\ lastSync' = done("notfound", <<Write("Create", configData, ~writeError)>>)
            /\ cm' = IF writeError THEN cm
                     ELSE ConfigMapOf([k \in {ConnectorConfigFileName} |-> configData])
            /\ published' = (published \/ ~writeError)
            /\ UNCHANGED crashed
       ELSE IF DataLookup(cm, ConnectorConfigFileName) = configData
       THEN /\ apiCall(FALSE)
            /\ lastSync' = done("found", <<>>)
            /\ UNCHANGED <<cm, crashed, published>>
       ELSE IF cm.nilData
       THEN \* assignment to an entry of a nil map: the goroutine panics
            /\ apiCall(FALSE)
            /\ lastSync' = done("found", <<>>)
            /\ crashed' = TRUE
            /\ UNCHANGED <<cm, published>>
       ELSE /\ apiCall(writeError)
            /\ lastSync' = done("found", <<Write("Update", configData, ~writeError)>>)
            /\ cm' = IF writeError THEN cm
                     ELSE DataAssign(cm, ConnectorConfigFileName, configData)
            /\ published' = (published \/ ~writeError)
            /\ UNCHANGED crashed

\* One iteration of SyncConnectorConfig: the call at startup, or a tick.
SyncConnectorConfig ==
    /\ Running /\ mgr.runnable
    /\ \E getError, writeError \in BOOLEAN :
          updateConfigMapIfNeeded(getError, writeError)
    /\ UNCHANGED <<apiNodes, store, configVars, mgr, ctl, queue, listed, removed>>
    /\ UNCHANGED notControllerVars

(***************************************************************************)
(* The environment: the cluster, the other writers of the store and of the *)
(* ConfigMap.                                                              *)
(***************************************************************************)
Enqueue(n) ==
    IF mgr.phase = "started" /\ mgr.watch /\ n \in NonEdgeNodes
    THEN queue \cup {n} ELSE queue

NodeApply(n, obj) ==
    /\ EnvStep
    /\ obj \in NodeObjects(n)
    /\ obj # apiNodes[n]
    /\ ~apiNodes[n].deleting
    /\ apiNodes' = [apiNodes EXCEPT ![n] = obj]
    /\ queue' = Enqueue(n)
    /\ UNCHANGED <<cm, store, configVars, mgr, ctl, crashed, historyVars>>
    /\ UNCHANGED notControllerVars

NodeMarkDeleting(n) ==
    /\ EnvStep
    /\ apiNodes[n].exists /\ ~apiNodes[n].deleting
    /\ apiNodes' = [apiNodes EXCEPT ![n].deleting = TRUE]
    /\ queue' = Enqueue(n)
    /\ UNCHANGED <<cm, store, configVars, mgr, ctl, crashed, historyVars>>
    /\ UNCHANGED notControllerVars

NodeDelete(n) ==
    /\ EnvStep
    /\ apiNodes[n].exists
    /\ apiNodes' = [apiNodes EXCEPT ![n] = NoNode]
    /\ queue' = Enqueue(n)
    /\ UNCHANGED <<cm, store, configVars, mgr, ctl, crashed, historyVars>>
    /\ UNCHANGED notControllerVars

SaveEndpoint(e) ==
    /\ EnvStep
    /\ ~(e.Name \in DOMAIN store /\ store[e.Name] = e)
    /\ store' = StoreSave(e)
    /\ UNCHANGED <<apiNodes, cm, configVars, mgr, ctl, queue, crashed, historyVars>>
    /\ UNCHANGED notControllerVars

DeleteEndpoint(name) ==
    /\ EnvStep
    /\ name \in DOMAIN store
    /\ store' = StoreDelete(name)
    /\ UNCHANGED <<apiNodes, cm, configVars, mgr, ctl, queue, crashed, historyVars>>
    /\ UNCHANGED notControllerVars

\* Somebody else creates, replaces or deletes the ConfigMap.
ForeignConfigMaps ==
    {NoConfigMap, NilDataConfigMap, ConfigMapOf([k \in {OtherKey} |-> <<"x">>])}

ForeignConfigMapWrite(c) ==
    /\ EnvStep
    /\ c # cm
    /\ cm' = c
    /\ UNCHANGED <<apiNodes, store, configVars, mgr, ctl, queue, crashed, historyVars>>
    /\ UNCHANGED notControllerVars

(***************************************************************************)
(* The specification.                                                      *)
(***************************************************************************)
InitialNodeObjects(n) ==
    {NoNode} \cup NodeObjects(n)

\* The threads that call getConnectorEndpoint (the EndpointGetter AddToManager
\* returns, line 130).
Getters == {"g1", "g2"}

NoSlice == 0

IdleReconciler ==
    [pc |-> "idle", op |-> "none", name |-> "", node |-> NoNode,
     subnets |-> NoSlice, nodeSubnets |-> NoSlice, pending |-> {}, done |-> 0]

IdleGetter ==
    [pc |-> "idle", pending |-> {}, Subnets |-> NoSlice, NodeSubnets |-> NoSlice,
     returned |-> FALSE, result |-> [Subnets |-> NoSlice, NodeSubnets |-> NoSlice],
     seen |-> <<>>]

\* The fine-grained view is not running.
MutexIdle ==
    /\ mux = [writer |-> FALSE, readers |-> 0]
    /\ heap = <<>>
    /\ shared = [nodeNameSet |-> {}, nodeCache |-> <<>>,
                 connectorEndpoint |-> [Subnets |-> NoSlice, NodeSubnets |-> NoSlice]]
    /\ reconciler = IdleReconciler
    /\ getters = [g \in Getters |-> IdleGetter]
    /\ built = {}

\* The tables of the kernel the model follows.
Tables == {"filter", "nat", "mangle", "raw", "security"}

NotRunning ==
    [running |-> FALSE, command |-> "", args |-> <<>>, stdin |-> <<>>, tables |-> <<>>,
     applied |-> 0, invocations |-> 0]

NoReplace == [returned |-> FALSE, failed |-> FALSE, stdout |-> "", stderr |-> "", cause |-> 0]

\* No builder exists.
HelperIdle ==
    /\ protocol = ""
    /\ ruleSets = <<>>
    /\ calls = 0
    /\ cleared = FALSE
    /\ twin = <<>>
    /\ restore = NotRunning
    /\ live = [t \in Tables |-> 0]
    /\ lastReplace = NoReplace

\* The controller as constructed, in one fixed cluster.
\* NewAgentArgumentMap: no entry; ArgumentArray has not been called.
NotCalled == [called |-> FALSE, array |-> <<>>]

\* No request has reached the certificate service.
NoExchange ==
    [method |-> "", header |-> <<>>, body |-> <<>>, status |-> 0, response |-> <<>>,
     sent |-> 0, returned |-> <<>>, failed |-> FALSE]

CertIdle ==
    /\ tokensUsed = {}
    /\ issued = <<>>
    /\ posts = 0
    /\ exchange = NoExchange

ArgMapIdle ==
    /\ argMap = [name \in {} |-> ""]
    /\ argSteps = 0
    /\ argv = NotCalled
    /\ environ = <<>>

ControllerIdle ==
    /\ apiNodes = [n \in NodeNames |-> NoNode]
    /\ cm = NoConfigMap
    /\ store = <<>>
    /\ providedSubnets = ProvidedSubnets
    /\ collectPodCIDRs = FALSE
    /\ mgr = NotRegistered
    /\ ctl = NewController
    /\ queue = {}
    /\ crashed = FALSE
    /\ lastSync = NoSync
    /\ published = FALSE
    /\ listed = {}
    /\ removed = {}
    /\ envSteps = 0

ControllerInit ==
    /\ apiNodes \in [NodeNames -> UNION {InitialNodeObjects(n) : n \in NodeNames}]
    /\ \A n \in NodeNames : apiNodes[n] \in InitialNodeObjects(n)
    /\ cm = NoConfigMap
    /\ store = <<>>
    /\ providedSubnets = ProvidedSubnets
    /\ collectPodCIDRs \in BOOLEAN
    /\ mgr = NotRegistered
    /\ ctl = NewController
    /\ queue = {}
    /\ crashed = FALSE
    /\ lastSync = NoSync
    /\ published = FALSE
    /\ listed = {}
    /\ removed = {}
    /\ envSteps = 0

Init == ControllerInit /\ MutexIdle /\ HelperIdle /\ ArgMapIdle /\ CertIdle

Next ==
    \/ \E outcome \in AddToManagerOutcomes : AddToManager(outcome)
    \/ ManagerStart
    \/ \E n \in NodeNames, getError \in BOOLEAN : onNodeRequest(n, getError)
    \/ SyncConnectorConfig
    \/ \E n \in NodeNames : \E obj \in NodeObjects(n) : NodeApply(n, obj)
    \/ \E n \in NodeNames : NodeMarkDeleting(n)
    \/ \E n \in NodeNames : NodeDelete(n)
    \/ \E e \in StoreEndpoints : SaveEndpoint(e)
    \/ \E name \in DOMAIN store : DeleteEndpoint(name)
    \/ \E c \in ForeignConfigMaps : ForeignConfigMapWrite(c)

Spec == Init /\ [][Next]_vars

\* The ticker of SyncConnectorConfig keeps firing while the process lives.
FairSpec == Spec /\ WF_vars(SyncConnectorConfig)

(***************************************************************************)
(* Properties of the publication loop.                                     *)
(***************************************************************************)
\* The writes of an invocation, without their outcome.
Issued(writes) == [i \in 1..Len(writes) |-> <<writes[i].op, writes[i].payload>>]

HasPayload(c, payload) ==
    /\ c.exists /\ ~c.nilData
    /\ ConnectorConfigFileName \in DOMAIN c.data
    /\ c.data[ConnectorConfigFileName] = payload

\* C1: an invocation of updateConfigMapIfNeeded whose Get succeeds or reports
\* NotFound issues exactly one Create of the fresh serialization when the
\* artifact is absent, no write when the stored payload equals the fresh
\* serialization, and exactly one Update to the fresh serialization for every
\* other state of an existing artifact.
C1_OneWritePerInvocation ==
    [][ (SyncConnectorConfig /\ lastSync'.get # "error") =>
            LET fresh == Marshal(NetworkConf)
            IN Issued(lastSync'.writes) =
                 IF ~cm.exists THEN << <<"Create", fresh>> >>
                 ELSE IF HasPayload(cm, fresh) THEN <<>>
                 ELSE << <<"Update", fresh>> >> ]_vars

\* The name-sorted sequence of the converted endpoints of the store whose
\* name is in names.
IsSortedProjection(peers, names) ==
    /\ Len(peers) = Cardinality(names)
    /\ \A i \in 1..Len(peers) :
          /\ peers[i].name \in names
          /\ peers[i] = ConvertToTunnelEndpoint(store[peers[i].name])
    /\ \A i, j \in 1..Len(peers) : i < j => Rank(peers[i].name) < Rank(peers[j].name)

PublicationLoopRuns == Running /\ mgr.runnable

\* C2: the Peers the connector controller emits are the endpoints of the
\* store without the connector, sorted by Name.
C2_PeersAreStoreWithoutConnectorSorted ==
    PublicationLoopRuns =>
        IsSortedProjection(NetworkConf.Peers, DOMAIN store \ {ConnectorName})

\* C3: the local TunnelEndpoint of a NetworkConf the connector controller
\* constructs does not appear among its Peers, by Name or by ID.
C3_TunnelEndpointNotInPeers ==
    PublicationLoopRuns =>
        \A i \in 1..Len(NetworkConf.Peers) :
            /\ NetworkConf.Peers[i].name # NetworkConf.TunnelEndpoint.name
            /\ NetworkConf.Peers[i].id # NetworkConf.TunnelEndpoint.id

(***************************************************************************)
(* Properties of the node cache and the connector endpoint.                *)
(***************************************************************************)
\* AddToManager has built the connector endpoint.
Initialized == mgr.phase \in {"added", "started"}

\* The place of a cached node among the cached nodes, by ascending name.
Place(n, names) == 1 + Cardinality({m \in names : Rank(m) < Rank(n)})

\* The PodCIDRs of the cached nodes, those of the greatest name last.
RECURSIVE CachedPodCIDRs(_, _)
CachedPodCIDRs(names, cache) ==
    IF names = {} THEN <<>>
    ELSE LET last == CHOOSE n \in names : \A m \in names : Rank(m) <= Rank(n)
         IN CachedPodCIDRs(names \ {last}, cache) \o cache[last].PodCIDRs

\* C4: after every rebuild Subnets is ProvidedSubnets followed by the PodCIDRs
\* of every cached node and NodeSubnets is the IP of every cached node, the
\* nodes taken in ascending name order, whatever the order they were added in.
C4_RebuildIsOrderedByNodeName ==
    Initialized =>
        LET ep == ctl.connectorEndpoint
            names == DOMAIN ctl.nodeCache
        IN /\ ctl.nodeNameSet = names
           /\ ep.Subnets = ProvidedSubnets \o CachedPodCIDRs(names, ctl.nodeCache)
           /\ Len(ep.NodeSubnets) = Cardinality(names)
           /\ \A n \in names : ep.NodeSubnets[Place(n, names)] = ctl.nodeCache[n].IP
           /\ (names = {"n1", "n2"} /\ collectPodCIDRs) =>
                 /\ ep.Subnets = <<"192.168.0.0/16", "10.244.1.0/24", "10.244.2.0/24">>
                 /\ ep.NodeSubnets = <<"10.0.0.1", "10.0.0.2">>

\* n1 and n2 are cached, one seeded at startup and the other added by a
\* reconcile afterwards.
C4_Witness ==
    /\ mgr.phase = "started" /\ collectPodCIDRs
    /\ ctl.nodeNameSet = {"n1", "n2"}
    /\ Cardinality(listed) = 1
    /\ ctl.connectorEndpoint.Subnets = <<"192.168.0.0/16", "10.244.1.0/24", "10.244.2.0/24">>
    /\ ctl.connectorEndpoint.NodeSubnets = <<"10.0.0.1", "10.0.0.2">>

\* The elements of a sequence.
Range(q) == {q[i] : i \in 1..Len(q)}

\* C6: a reconcile that finds the node NotFound or deleting drops it from the
\* cache and rebuilds the endpoint without its IP and PodCIDRs; for a node
\* that is not cached the cache and the endpoint stay as they are; a Get error
\* other than NotFound changes nothing and leaves the request to be retried.
C6_RemoveOnNotFoundOrDeleting ==
    [][ \A n \in NodeNames :
          /\ (onNodeRequest(n, FALSE) /\ (~apiNodes[n].exists \/ apiNodes[n].deleting)) =>
                /\ n \notin ctl'.nodeNameSet
                /\ ctl'.nodeCache = [k \in DOMAIN ctl.nodeCache \ {n} |-> ctl.nodeCache[k]]
                /\ n \in DOMAIN ctl.nodeCache =>
                      /\ ctl.nodeCache[n].IP \notin Range(ctl'.connectorEndpoint.NodeSubnets)
                      /\ Range(ctl.nodeCache[n].PodCIDRs)
                            \cap Range(ctl'.connectorEndpoint.Subnets) = {}
                /\ n \notin DOMAIN ctl.nodeCache => ctl' = ctl
          /\ onNodeRequest(n, TRUE) => (ctl' = ctl /\ n \in queue') ]_vars

\* A node seeded at startup has been removed by a reconcile and is gone from
\* the endpoint.
C6_Witness ==
    \E n \in listed :
        /\ n \in removed
        /\ n \notin ctl.nodeNameSet
        /\ NodeIP(n) \notin Range(ctl.connectorEndpoint.NodeSubnets)

\* C7: a cached node is removed from the cache when a reconcile observes that
\* it has lost its IP or its PodCIDRs.
C7_RemoveOnLossOfIPOrPodCIDRs ==
    [][ \A n \in NodeNames :
          ( /\ onNodeRequest(n, FALSE)
            /\ n \in ctl.nodeNameSet
            /\ apiNodes[n].exists /\ ~apiNodes[n].deleting
            /\ (apiNodes[n].ip = "" \/ apiNodes[n].podCIDRs = <<>>) ) =>
                /\ n \notin ctl'.nodeNameSet
                /\ ctl.nodeCache[n].IP \notin Range(ctl'.connectorEndpoint.NodeSubnets) ]_vars

\* C8: with CollectPodCIDRs false the endpoint's Subnets are the
\* ProvidedSubnets exactly, and NodeSubnets lists the IPs of the cached nodes.
C8_ProvidedSubnetsOnly ==
    (Initialized /\ ~collectPodCIDRs) =>
        /\ ctl.connectorEndpoint.Subnets = ProvidedSubnets
        /\ Range(ctl.connectorEndpoint.NodeSubnets) =
              {ctl.nodeCache[n].IP : n \in DOMAIN ctl.nodeCache}
        /\ Len(ctl.connectorEndpoint.NodeSubnets) = Cardinality(DOMAIN ctl.nodeCache)

\* Two nodes with PodCIDRs in the cluster are cached while CollectPodCIDRs is
\* false.
C8_Witness ==
    /\ mgr.phase = "started" /\ ~collectPodCIDRs
    /\ ctl.nodeNameSet = {"n1", "n2"}
    /\ \A n \in ctl.nodeNameSet : apiNodes[n].podCIDRs # <<>>
    /\ ctl.connectorEndpoint.NodeSubnets = <<"10.0.0.1", "10.0.0.2">>

(***************************************************************************)
(* Properties of startup.                                                  *)
(***************************************************************************)
\* The tunnel endpoint carries the node's IP and, when PodCIDRs are
\* collected, its PodCIDRs.
ContainsNode(t, n) ==
    /\ NodeIP(n) \in Range(t.nodeSubnets)
    /\ collectPodCIDRs => NodeCIDR(n) \in Range(t.subnets)

\* The step writes a NetworkConf to the ConfigMap for the first time.
FirstPublication == ~published /\ published'

\* C9 as stated: the first NetworkConf emitted contains every non-edge node
\* with an IP and PodCIDRs that the initial List returned.
C9_FirstConfHasEveryListedNode ==
    [][ FirstPublication =>
            \A n \in listed : ContainsNode(NetworkConf.TunnelEndpoint, n) ]_vars

\* C9 as amended: the endpoint is built from the List before the loop or the
\* watch is registered, and the first NetworkConf emitted contains every
\* listed node except those a reconcile has removed in between.
C9_SeededBeforeRegistration ==
    [][ /\ (mgr.phase = "new" /\ (mgr'.runnable \/ mgr'.watch)) =>
              /\ listed' = ListedComplete
              /\ \A n \in listed' :
                    ContainsNode(ConvertToTunnelEndpoint(ctl'.connectorEndpoint), n)
        /\ FirstPublication =>
              /\ HasPayload(cm', Marshal(NetworkConf))
              /\ \A n \in listed \ removed :
                    ContainsNode(NetworkConf.TunnelEndpoint, n) ]_vars

\* The first NetworkConf has been written, it carries a node of the initial
\* List, and nothing was removed before.
C9_Witness ==
    /\ published /\ removed = {}
    /\ listed = {"n1", "n2"}
    /\ \E n \in listed : ContainsNode(lastSync.conf.TunnelEndpoint, n)
    /\ Len(lastSync.writes) = 1 /\ lastSync.writes[1].ok

\* C10: when the initial List fails AddToManager returns the error and no
\* getter, registers neither the loop nor the watch, and the controller never
\* writes the configuration artifact.
C10_ListFailureAbortsStartup ==
    mgr.result = "listError" =>
        /\ mgr.phase = "failed"
        /\ ~mgr.getter /\ ~mgr.runnable /\ ~mgr.watch
        /\ queue = {}
        /\ lastSync = NoSync /\ ~published
        /\ cm \in ForeignConfigMaps

\* The List failed while the cluster had nodes to publish.
C10_Witness ==
    /\ mgr.result = "listError"
    /\ ListedComplete # {}
    /\ envSteps > 0

(***************************************************************************)
(* Convergence of the publication loop.                                    *)
(***************************************************************************)
ArtifactCurrent == HasPayload(cm, Marshal(NetworkConf))

\* C5: no failure of an iteration stops the loop, so once the store and the
\* node cache stop changing and the API calls succeed, the artifact holds
\* the serialization of the current NetworkConf and stays equal to it.
C5_ArtifactEventuallyCurrent ==
    <>[]((mgr.phase = "started" /\ mgr.runnable) => ArtifactCurrent)

(***************************************************************************)
(* The controller at the grain of its mutex.                               *)
(*                                                                         *)
(* A slice is the address of its backing array in heap; a struct is copied *)
(* field by field, in no fixed order. ID, Name and PublicAddresses of the  *)
(* endpoint are the same in every rebuild and are left out.                *)
(***************************************************************************)
\* How many requests the reconciler handles.
MaxReconciles == 2

EndpointFields == {"Subnets", "NodeSubnets"}

\* The arrays behind the slices of an endpoint value.
Deref(e) == [Subnets |-> heap[e.Subnets], NodeSubnets |-> heap[e.NodeSubnets]]

MuxFree == ~mux.writer /\ mux.readers = 0

\* The state in which AddToManager hands out the getter: the cache seeded
\* from the List and the endpoint built (lines 109-112), the mutex free.
InitMux ==
    /\ ControllerInit
    /\ \A n \in NodeNames :
          apiNodes[n] \in {NoNode, NodeObject(n, NodeIP(n), <<NodeCIDR(n)>>, FALSE)}
    /\ LET c == initializeConnectorEndpoint(ctl)
       IN /\ heap = <<c.connectorEndpoint.Subnets, c.connectorEndpoint.NodeSubnets>>
          /\ shared = [nodeNameSet |-> c.nodeNameSet, nodeCache |-> c.nodeCache,
                       connectorEndpoint |-> [Subnets |-> 1, NodeSubnets |-> 2]]
          /\ built = {[Subnets |-> c.connectorEndpoint.Subnets,
                       NodeSubnets |-> c.connectorEndpoint.NodeSubnets]}
    /\ mux = [writer |-> FALSE, readers |-> 0]
    /\ reconciler = IdleReconciler
    /\ getters = [g \in Getters |-> IdleGetter]
    /\ HelperIdle
    /\ ArgMapIdle
    /\ CertIdle

\* onNodeRequest up to the call of removeNode or addNode, and addNode up to
\* its Lock (lines 223-250): the node is whatever the cluster holds now.
onNodeRequestGet(n, node) ==
    /\ reconciler.pc = "idle"
    /\ reconciler.done < MaxReconciles
    /\ node \in InitialNodeObjects(n)
    /\ reconciler' =
          IF ~node.exists \/ node.deleting
          THEN [reconciler EXCEPT !.pc = "Lock", !.op = "removeNode", !.name = n,
                                  !.node = node]
          ELSE IF node.ip = "" \/ node.podCIDRs = <<>>
          THEN [reconciler EXCEPT !.done = @ + 1]
          ELSE [reconciler EXCEPT !.pc = "Lock", !.op = "addNode", !.name = n,
                                  !.node = node]
    /\ UNCHANGED <<mux, heap, shared, getters, built>>
    /\ UNCHANGED notMutexVars

\* ctl.mux.Lock() (lines 257, 274).
muxLock ==
    /\ reconciler.pc = "Lock"
    /\ MuxFree
    /\ mux' = [mux EXCEPT !.writer = TRUE]
    /\ reconciler' = [reconciler EXCEPT !.pc = reconciler.op]
    /\ UNCHANGED <<heap, shared, getters, built>>
    /\ UNCHANGED notMutexVars

\* addNode under the lock (lines 259-267).
addNodeLocked ==
    /\ reconciler.pc = "addNode"
    /\ IF reconciler.name \in shared.nodeNameSet
       THEN /\ reconciler' = [reconciler EXCEPT !.pc = "Unlock"]
            /\ UNCHANGED shared
       ELSE LET name == reconciler.name
                podCIDRs == IF collectPodCIDRs THEN reconciler.node.podCIDRs ELSE <<>>
                entry == [Name |-> name, IP |-> reconciler.node.ip, PodCIDRs |-> podCIDRs]
            IN /\ shared' = [shared EXCEPT
                               !.nodeNameSet = @ \cup {name},
                               !.nodeCache = [k \in DOMAIN shared.nodeCache \cup {name} |->
                                                IF k = name THEN entry
                                                ELSE shared.nodeCache[k]]]
               /\ reconciler' = [reconciler EXCEPT !.pc = "rebuild"]
    /\ UNCHANGED <<mux, heap, getters, built>>
    /\ UNCHANGED notMutexVars

\* removeNode under the lock (lines 277-278).
removeNodeLocked ==
    /\ reconciler.pc = "removeNode"
    /\ shared' = [shared EXCEPT
                    !.nodeNameSet = @ \ {reconciler.name},
                    !.nodeCache = [k \in DOMAIN shared.nodeCache \ {reconciler.name} |->
                                     shared.nodeCache[k]]]
    /\ reconciler' = [reconciler EXCEPT !.pc = "rebuild"]
    /\ UNCHANGED <<mux, heap, getters, built>>
    /\ UNCHANGED notMutexVars

\* rebuildConnectorEndpoint, lines 306-315: two new arrays, filled from the
\* cache; nobody else holds their addresses yet.
rebuildCompute ==
    /\ reconciler.pc = "rebuild"
    /\ LET names == Values(shared.nodeNameSet)
           subnets == providedSubnets \o AppendPodCIDRs(names, shared.nodeCache)
           nodeSubnets == AppendIPs(names, shared.nodeCache)
       IN /\ heap' = heap \o <<subnets, nodeSubnets>>
          /\ built' = built \cup {[Subnets |-> subnets, NodeSubnets |-> nodeSubnets]}
          /\ reconciler' = [reconciler EXCEPT !.pc = "assign",
                                              !.subnets = Len(heap) + 1,
                                              !.nodeSubnets = Len(heap) + 2,
                                              !.pending = EndpointFields]
    /\ UNCHANGED <<mux, shared, getters>>
    /\ UNCHANGED notMutexVars

\* rebuildConnectorEndpoint, lines 317-323: the assignment to
\* ctl.connectorEndpoint, one field at a time.
rebuildAssign(f) ==
    /\ reconciler.pc = "assign"
    /\ f \in reconciler.pending
    /\ shared' = [shared EXCEPT !.connectorEndpoint[f] =
                     IF f = "Subnets" THEN reconciler.subnets ELSE reconciler.nodeSubnets]
    /\ reconciler' = [reconciler EXCEPT
                        !.pending = @ \ {f},
                        !.pc = IF reconciler.pending = {f} THEN "Unlock" ELSE "assign"]
    /\ UNCHANGED <<mux, heap, getters, built>>
    /\ UNCHANGED notMutexVars

\* defer ctl.mux.Unlock() (lines 258, 275).
muxUnlock ==
    /\ reconciler.pc = "Unlock"
    /\ mux' = [mux EXCEPT !.writer = FALSE]
    /\ reconciler' = [IdleReconciler EXCEPT !.done = reconciler.done + 1]
    /\ UNCHANGED <<heap, shared, getters, built>>
    /\ UNCHANGED notMutexVars

\* Mutant: the getter does not wait for the writer to release the mutex.
getRLockDespiteWriter(g) ==
    /\ getters[g].pc = "idle"
    /\ mux' = [mux EXCEPT !.readers = @ + 1]
    /\ getters' = [getters EXCEPT ![g].pc = "copy", ![g].pending = EndpointFields]
    /\ UNCHANGED <<heap, shared, reconciler, built>>
    /\ UNCHANGED notMutexVars

\* getConnectorEndpoint: ctl.mux.RLock() (line 327).
getRLock(g) ==
    /\ getters[g].pc = "idle"
    /\ ~mux.writer
    /\ mux' = [mux EXCEPT !.readers = @ + 1]
    /\ getters' = [getters EXCEPT ![g].pc = "copy", ![g].pending = EndpointFields]
    /\ UNCHANGED <<heap, shared, reconciler, built>>
    /\ UNCHANGED notMutexVars

\* getConnectorEndpoint: the copy of ctl.connectorEndpoint into the result
\* (line 330), one field at a time.
getCopy(g, f) ==
    /\ getters[g].pc = "copy"
    /\ f \in getters[g].pending
    /\ getters' = [getters EXCEPT
                     ![g][f] = shared.connectorEndpoint[f],
                     ![g].pending = @ \ {f},
                     ![g].pc = IF getters[g].pending = {f} THEN "RUnlock" ELSE "copy"]
    /\ UNCHANGED <<mux, heap, shared, reconciler, built>>
    /\ UNCHANGED notMutexVars

\* getConnectorEndpoint: defer ctl.mux.RUnlock() (line 328) and the return;
\* result is the value the caller receives, seen is what it finds in it.
getRUnlock(g) ==
    /\ getters[g].pc = "RUnlock"
    /\ mux' = [mux EXCEPT !.readers = @ - 1]
    /\ getters' = [getters EXCEPT
                     ![g].pc = "idle",
                     ![g].returned = TRUE,
                     ![g].result = [Subnets |-> getters[g].Subnets,
                                    NodeSubnets |-> getters[g].NodeSubnets],
                     ![g].seen = Deref(getters[g])]
    /\ UNCHANGED <<heap, shared, reconciler, built>>
    /\ UNCHANGED notMutexVars

NextMux ==
    \/ \E n \in NonEdgeNodes : \E node \in InitialNodeObjects(n) : onNodeRequestGet(n, node)
    \/ muxLock
    \/ addNodeLocked
    \/ removeNodeLocked
    \/ rebuildCompute
    \/ \E f \in EndpointFields : rebuildAssign(f)
    \/ muxUnlock
    \/ \E g \in Getters : getRLock(g)
    \/ \E g \in Getters, f \in EndpointFields : getCopy(g, f)
    \/ \E g \in Getters : getRUnlock(g)

SpecMux == InitMux /\ [][NextMux]_vars

\* C11: under any interleaving of getConnectorEndpoint with addNode and
\* removeNode, every value getConnectorEndpoint has returned is an endpoint
\* that one rebuild computed (Subnets and NodeSubnets from the same state of
\* the node cache), and it still holds what it held when it was returned.
C11_ReturnedEndpointIsOneRebuild ==
    \A g \in Getters :
        getters[g].returned =>
            /\ Deref(getters[g].result) \in built
            /\ Deref(getters[g].result) = getters[g].seen

\* A getter holds the endpoint of the first reconcile, a second reconcile is
\* assigning another one, and the other getter waits for the mutex.
C11_Witness ==
    /\ reconciler.pc = "assign" /\ reconciler.done = 1
    /\ reconciler.pending = {"NodeSubnets"}
    /\ \E g \in Getters :
          /\ getters[g].returned
          /\ getters[g].result.Subnets = 3
          /\ heap[reconciler.subnets] # heap[getters[g].result.Subnets]
          /\ heap[reconciler.nodeSubnets] # heap[getters[g].result.NodeSubnets]
          /\ \E h \in Getters \ {g} : getters[h].pc = "idle" /\ ~getters[h].returned

(***************************************************************************)
(* The packet-filter rule builder (src/unnamed/part_000).                  *)
(*                                                                         *)
(* A string is the sequence of the words that single spaces separate in    *)
(* it, so that strings.Join(..., " ") is concatenation: "-j ACCEPT" is     *)
(* <<"-j", "ACCEPT">>, "-j" is <<"-j">>. A rule is a sequence of such      *)
(* arguments. A line of the restore input is the sequence of its words,    *)
(* the first being the marker it starts with ("*" and ":" are followed by  *)
(* the name without a space).                                              *)
(***************************************************************************)
TableFilter == "filter"
TableNat == "nat"
ChainInput == "INPUT"
ChainForward == "FORWARD"
ChainPostRouting == "POSTROUTING"
ChainMasquerade == "MASQUERADE"
ChainFabEdgeInput == "FABEDGE-INPUT"
ChainFabEdgeForward == "FABEDGE-FORWARD"
ChainFabEdgePostRouting == "FABEDGE-POSTROUTING"
ChainFabEdgeNatOutgoing == "FABEDGE-NAT-OUTGOING"

\* The variadic arguments of a call, each one word.
Args(words) == [i \in 1..Len(words) |-> <<words[i]>>]

\* doCreateIPTablesHelper (lines 67-80).
RestoreCommandOf(proto) ==
    CASE proto = "ipv4" -> "iptables-restore"
      [] proto = "ipv6" -> "ip6tables-restore"
      [] OTHER -> ""

NewRuleSets == <<>>

\* Mutant: the chain name alone decides.
isInternalChainInAnyTable(table, chain) ==
    chain \in {"INPUT", "OUTPUT", "FORWARD", "PREROUTING", "POSTROUTING"}

isInternalChain(table, chain) ==
    \/ table = "filter" /\ chain \in {"INPUT", "OUTPUT", "FORWARD"}
    \/ table = "nat" /\ chain \in {"PREROUTING", "POSTROUTING", "OUTPUT"}
    \/ table = "mangle" /\ chain \in {"PREROUTING", "OUTPUT", "FORWARD", "INPUT", "POSTROUTING"}
    \/ table = "raw" /\ chain \in {"PREROUTING", "OUTPUT"}

\* strings.Join(rule, " ").
RECURSIVE Join(_)
Join(strs) == IF strs = <<>> THEN <<>> ELSE Head(strs) \o Join(Tail(strs))

ChainLine(table, chain) ==
    <<":", chain, IF isInternalChain(table, chain) THEN "ACCEPT" ELSE "-", "[0:0]">>

RuleLine(ruleEntry) == <<"-A", ruleEntry.chain>> \o Join(ruleEntry.rule)

\* The body of the loop of GenerateInputFromRuleSet (lines 137-155).
GenerateBlock(ruleSet) ==
    <<<<"*", ruleSet.table>>>>
    \o [i \in 1..Len(ruleSet.chains) |-> ChainLine(ruleSet.table, ruleSet.chains[i])]
    \o [i \in 1..Len(ruleSet.rules) |-> RuleLine(ruleSet.rules[i])]
    \o <<<<"COMMIT">>>>

RECURSIVE GenerateInputFromRuleSet(_)
GenerateInputFromRuleSet(rs) ==
    IF rs = <<>> THEN <<>>
    ELSE GenerateBlock(Head(rs)) \o GenerateInputFromRuleSet(Tail(rs))

\* The first index, or -1.
findTable(rs, table) ==
    IF \E i \in 1..Len(rs) : rs[i].table = table
    THEN CHOOSE i \in 1..Len(rs) :
            rs[i].table = table /\ \A j \in 1..(i - 1) : rs[j].table # table
    ELSE -1

findChain(rs, tableIndex, chain) ==
    LET chains == rs[tableIndex].chains
    IN IF \E i \in 1..Len(chains) : chains[i] = chain
       THEN CHOOSE i \in 1..Len(chains) :
               chains[i] = chain /\ \A j \in 1..(i - 1) : chains[j] # chain
       ELSE -1

\* Mutant: the table is not looked up, every call opens a new block.
CreateChainInNewTable(rs, table, chain) ==
    Append(rs, [table |-> table, chains |-> <<chain>>, rules |-> <<>>])

\* Mutant: the chain is not looked up, every call declares it again.
CreateChainWithoutLookup(rs, table, chain) ==
    LET found == findTable(rs, table)
        rs1 == IF found = -1
               THEN Append(rs, [table |-> table, chains |-> <<>>, rules |-> <<>>])
               ELSE rs
        tableIndex == IF found = -1 THEN Len(rs1) ELSE found
    IN [rs1 EXCEPT ![tableIndex].chains = Append(@, chain)]

CreateChain(rs, table, chain) ==
    LET found == findTable(rs, table)
        rs1 == IF found = -1
               THEN Append(rs, [table |-> table, chains |-> <<>>, rules |-> <<>>])
               ELSE rs
        tableIndex == IF found = -1 THEN Len(rs1) ELSE found
        chainIndex == findChain(rs1, tableIndex, chain)
    IN IF chainIndex = -1
       THEN [rs1 EXCEPT ![tableIndex].chains = Append(@, chain)]
       ELSE rs1

rulesEqual(one, other) ==
    /\ Len(one) = Len(other)
    /\ \A i \in 1..Len(one) : one[i] = other[i]

\* Mutant: a rule equal to one of another chain of the table is dropped.
AppendUniqueRuleAcrossChains(rs, table, chain, rule) ==
    LET rs1 == IF findTable(rs, table) = -1 THEN CreateChain(rs, table, chain) ELSE rs
        tableIndex == findTable(rs1, table)
        rs2 == IF findChain(rs1, tableIndex, chain) = -1
               THEN CreateChain(rs1, table, chain)
               ELSE rs1
        rules == rs2[tableIndex].rules
    IN IF \E i \in 1..Len(rules) : rulesEqual(rules[i].rule, rule)
       THEN rs2
       ELSE [rs2 EXCEPT ![tableIndex].rules = Append(@, [chain |-> chain, rule |-> rule])]

\* Mutant: the rule is appended whether or not the chain holds it already.
AppendRuleUnchecked(rs, table, chain, rule) ==
    LET rs1 == IF findTable(rs, table) = -1 THEN CreateChain(rs, table, chain) ELSE rs
        tableIndex == findTable(rs1, table)
        rs2 == IF findChain(rs1, tableIndex, chain) = -1
               THEN CreateChain(rs1, table, chain)
               ELSE rs1
    IN [rs2 EXCEPT ![tableIndex].rules = Append(@, [chain |-> chain, rule |-> rule])]

AppendUniqueRule(rs, table, chain, rule) ==
    LET rs1 == IF findTable(rs, table) = -1 THEN CreateChain(rs, table, chain) ELSE rs
        tableIndex == findTable(rs1, table)
        rs2 == IF findChain(rs1, tableIndex, chain) = -1
               THEN CreateChain(rs1, table, chain)
               ELSE rs1
        rules == rs2[tableIndex].rules
    IN IF \E i \in 1..Len(rules) :
             rules[i].chain = chain /\ rulesEqual(rules[i].rule, rule)
       THEN rs2
       ELSE [rs2 EXCEPT ![tableIndex].rules = Append(@, [chain |-> chain, rule |-> rule])]

\* Mutant: the rules are dropped, the tables and their chains stay.
ClearAllRulesKeepingChains(rs) ==
    [i \in 1..Len(rs) |-> [rs[i] EXCEPT !.rules = <<>>]]

ClearAllRules(rs) == <<>>

CreateFabEdgePostRoutingChain(rs) == CreateChain(rs, TableNat, ChainFabEdgePostRouting)

CreateFabEdgeInputChain(rs) == CreateChain(rs, TableFilter, ChainFabEdgeInput)

CreateFabEdgeForwardChain(rs) == CreateChain(rs, TableFilter, ChainFabEdgeForward)

CreateFabEdgeNatOutgoingChain(rs) == CreateChain(rs, TableNat, ChainFabEdgeNatOutgoing)

PreparePostRoutingChain(rs) ==
    AppendUniqueRule(CreateChain(rs, TableNat, ChainFabEdgePostRouting),
                     TableNat, ChainPostRouting, Args(<<"-j", ChainFabEdgePostRouting>>))

PrepareForwardChain(rs) ==
    AppendUniqueRule(CreateChain(rs, TableFilter, ChainFabEdgeForward),
                     TableFilter, ChainForward, Args(<<"-j", ChainFabEdgeForward>>))

\* The loop of MaintainForwardRulesForIPSet (lines 260-263).
RECURSIVE ForwardRulesForIPSets(_, _)
ForwardRulesForIPSets(rs, ipsetNames) ==
    IF ipsetNames = <<>> THEN rs
    ELSE LET ipsetName == Head(ipsetNames)
             src == AppendUniqueRule(rs, TableFilter, ChainFabEdgeForward,
                        Args(<<"-m", "set", "--match-set", ipsetName, "src", "-j", "ACCEPT">>))
             dst == AppendUniqueRule(src, TableFilter, ChainFabEdgeForward,
                        Args(<<"-m", "set", "--match-set", ipsetName, "dst", "-j", "ACCEPT">>))
         IN ForwardRulesForIPSets(dst, Tail(ipsetNames))

MaintainForwardRulesForIPSet(rs, ipsetNames) ==
    ForwardRulesForIPSets(
        AppendUniqueRule(PrepareForwardChain(rs), TableFilter, ChainFabEdgeForward,
            Args(<<"-m", "conntrack", "--ctstate", "RELATED,ESTABLISHED", "-j", "ACCEPT">>)),
        ipsetNames)

RECURSIVE MaintainForwardRulesForSubnets(_, _)
MaintainForwardRulesForSubnets(rs, subnets) ==
    IF subnets = <<>> THEN rs
    ELSE LET subnet == Head(subnets)
             src == AppendUniqueRule(rs, TableFilter, ChainFabEdgeForward,
                        Args(<<"-s", subnet, "-j", "ACCEPT">>))
             dst == AppendUniqueRule(src, TableFilter, ChainFabEdgeForward,
                        Args(<<"-d", subnet, "-j", "ACCEPT">>))
         IN MaintainForwardRulesForSubnets(dst, Tail(subnets))

RECURSIVE MaintainNatOutgoingRulesForSubnets(_, _, _)
MaintainNatOutgoingRulesForSubnets(rs, subnets, ipsetName) ==
    IF subnets = <<>> THEN rs
    ELSE LET subnet == Head(subnets)
             r1 == AppendUniqueRule(rs, TableNat, ChainFabEdgeNatOutgoing,
                       Args(<<"-s", subnet, "-m", "set", "--match-set", ipsetName, "dst",
                              "-j", "RETURN">>))
             r2 == AppendUniqueRule(r1, TableNat, ChainFabEdgeNatOutgoing,
                       Args(<<"-s", subnet, "-d", subnet, "-j", "RETURN">>))
             r3 == AppendUniqueRule(r2, TableNat, ChainFabEdgeNatOutgoing,
                       Args(<<"-s", subnet, "-j", ChainMasquerade>>))
             r4 == AppendUniqueRule(r3, TableNat, ChainPostRouting,
                       Args(<<"-j", ChainFabEdgeNatOutgoing>>))
         IN MaintainNatOutgoingRulesForSubnets(r4, Tail(subnets), ipsetName)

AddPostRoutingRuleForKubernetes(rs) ==
    AppendUniqueRule(CreateChain(rs, TableNat, "KUBE-POSTROUTING"),
        TableNat, ChainFabEdgePostRouting,
        Args(<<"-m", "mark", "--mark", "0x4000/0x4000", "-j", "KUBE-POSTROUTING">>))

AddPostRoutingRulesForIPSet(rs, ipsetName) ==
    AppendUniqueRule(
        AppendUniqueRule(rs, TableNat, ChainFabEdgePostRouting,
            Args(<<"-m", "set", "--match-set", ipsetName, "dst", "-j", "ACCEPT">>)),
        TableNat, ChainFabEdgePostRouting,
        Args(<<"-m", "set", "--match-set", ipsetName, "src", "-j", "ACCEPT">>))

AllowIPSec(rs) ==
    LET r1 == AppendUniqueRule(rs, TableFilter, ChainInput, Args(<<"-j", ChainFabEdgeInput>>))
        r2 == AppendUniqueRule(r1, TableFilter, ChainFabEdgeInput,
                  Args(<<"-p", "udp", "-m", "udp", "--dport", "500", "-j", "ACCEPT">>))
        r3 == AppendUniqueRule(r2, TableFilter, ChainFabEdgeInput,
                  Args(<<"-p", "udp", "-m", "udp", "--dport", "4500", "-j", "ACCEPT">>))
        r4 == AppendUniqueRule(r3, TableFilter, ChainFabEdgeInput,
                  Args(<<"-p", "esp", "-j", "ACCEPT">>))
    IN AppendUniqueRule(r4, TableFilter, ChainFabEdgeInput, Args(<<"-p", "ah", "-j", "ACCEPT">>))

AllowPostRoutingForIPSet(rs, src, dst) ==
    AppendUniqueRule(rs, TableNat, ChainFabEdgePostRouting,
        Args(<<"-m", "set", "--match-set", src, "src",
               "-m", "set", "--match-set", dst, "dst", "-j", "ACCEPT">>))

MasqueradePostRoutingForIPSet(rs, src, dst) ==
    AppendUniqueRule(rs, TableNat, ChainFabEdgePostRouting,
        Args(<<"-m", "set", "--match-set", src, "src",
               "-m", "set", "--match-set", dst, "dst", "-j", "MASQUERADE">>))

(***************************************************************************)
(* The builder in use: one goroutine calls it, and ReplaceRules blocks in  *)
(* cmd.Run while the restore tool reads its input.                         *)
(***************************************************************************)
\* Calls of the builder's methods, ReplaceRules among them.
MaxCalls == 3

\* The arguments the calls are made with.
CallTables == {"filter", "nat"}
CallChains == {"INPUT", "FABEDGE-FORWARD"}
RuleTables == {"filter"}
RuleChains == {"FABEDGE-FORWARD", "INPUT"}
Rules == {Args(<<"-j", "ACCEPT">>), <<<<"-j", "ACCEPT">>>>, Args(<<"-j", "DROP">>)}
IPSetLists == {<<"FABEDGE-PEER-CIDR", "FABEDGE-LOOP-BACK">>}
SubnetLists == {<<NodeCIDR("n1"), NodeCIDR("n2")>>}

\* How the restore tool can end: exit status, stdout, stderr.
ToolExits ==
    {[code |-> 0, stdout |-> "", stderr |-> ""],
     [code |-> 1, stdout |-> "", stderr |-> "iptables-restore: line 3 failed"],
     [code |-> 4, stdout |-> "", stderr |-> "Another app is currently holding the xtables lock"]}

InitHelper ==
    /\ ControllerIdle
    /\ MutexIdle
    /\ ArgMapIdle
    /\ CertIdle
    /\ protocol \in {"ipv4", "ipv6"}
    /\ ruleSets = NewRuleSets
    /\ calls = 0
    /\ cleared = FALSE
    /\ twin = NewRuleSets
    /\ restore = NotRunning
    /\ live = [t \in Tables |-> 0]
    /\ lastReplace = NoReplace

\* The caller makes one more call: ReplaceRules is not running, and what it
\* returned is gone.
Calling ==
    /\ ~restore.running
    /\ calls < MaxCalls
    /\ calls' = calls + 1
    /\ lastReplace' = NoReplace
    /\ UNCHANGED <<protocol, restore, live>>
    /\ UNCHANGED notHelperVars

\* The call is of a method that adds to h.ruleSets.
BuilderCall(outcome, twinOutcome) ==
    /\ ruleSets' = outcome
    /\ twin' = twinOutcome
    /\ UNCHANGED cleared

CallCreateChain(table, chain) ==
    Calling /\ BuilderCall(CreateChain(ruleSets, table, chain),
                         CreateChain(twin, table, chain))

CallAppendUniqueRule(table, chain, rule) ==
    Calling /\ BuilderCall(AppendUniqueRule(ruleSets, table, chain, rule),
                         AppendUniqueRule(twin, table, chain, rule))

CallClearAllRules ==
    /\ Calling
    /\ ruleSets' = ClearAllRules(ruleSets)
    /\ twin' = NewRuleSets
    /\ cleared' = TRUE

\* The tables of a restore input, in the order of their "*" lines.
RECURSIVE TablesOf(_)
TablesOf(input) ==
    IF input = <<>> THEN <<>>
    ELSE (IF Head(input)[1] = "*" THEN <<Head(input)[2]>> ELSE <<>>) \o TablesOf(Tail(input))

\* ReplaceRules up to cmd.Run (lines 101-103, 86-93).
ReplaceRulesStart ==
    /\ ~restore.running
    /\ calls < MaxCalls
    /\ calls' = calls + 1
    /\ LET rules == GenerateInputFromRuleSet(ruleSets)
       IN restore' = [running |-> TRUE,
                      command |-> RestoreCommandOf(protocol),
                      args |-> Append(<<>>, "--wait"),
                      stdin |-> rules,
                      tables |-> TablesOf(rules),
                      applied |-> 0,
                      invocations |-> restore.invocations + 1]
    /\ lastReplace' = NoReplace
    /\ UNCHANGED <<protocol, ruleSets, cleared, twin, live>>
    /\ UNCHANGED notHelperVars

\* The restore tool reaches the COMMIT line of the next table of its input
\* and commits that table.
RestoreCommit ==
    /\ restore.running
    /\ restore.applied < Len(restore.tables)
    /\ live' = [live EXCEPT ![restore.tables[restore.applied + 1]] = restore.invocations]
    /\ restore' = [restore EXCEPT !.applied = @ + 1]
    /\ UNCHANGED <<protocol, ruleSets, calls, cleared, twin, lastReplace>>
    /\ UNCHANGED notHelperVars

\* Mutant: the error keeps the exit status and drops what the tool printed.
ReplaceRulesErrorWithoutOutput(exit) ==
    IF exit.code # 0
    THEN [returned |-> TRUE, failed |-> TRUE, stdout |-> "", stderr |-> "",
          cause |-> exit.code]
    ELSE [returned |-> TRUE, failed |-> FALSE, stdout |-> "", stderr |-> "", cause |-> 0]

\* What ReplaceRules returns (lines 104-107).
ReplaceRulesError(exit) ==
    IF exit.code # 0
    THEN [returned |-> TRUE, failed |-> TRUE, stdout |-> exit.stdout,
          stderr |-> exit.stderr, cause |-> exit.code]
    ELSE [returned |-> TRUE, failed |-> FALSE, stdout |-> "", stderr |-> "", cause |-> 0]

\* The tool exits (with status 0 once it has committed every table, with
\* another status before that) and ReplaceRules returns.
ReplaceRulesReturn(exit) ==
    /\ restore.running
    /\ IF exit.code = 0
       THEN restore.applied = Len(restore.tables)
       ELSE restore.applied < Len(restore.tables) \/ restore.tables = <<>>
    /\ lastReplace' = ReplaceRulesError(exit)
    /\ restore' = [NotRunning EXCEPT !.invocations = restore.invocations]
    /\ UNCHANGED <<protocol, ruleSets, calls, cleared, twin, live>>
    /\ UNCHANGED notHelperVars

\* The calls of the helpers composed from CreateChain and AppendUniqueRule
\* (lines 228-309).
CallHelper ==
    \/ Calling /\ BuilderCall(CreateFabEdgePostRoutingChain(ruleSets), CreateFabEdgePostRoutingChain(twin))
    \/ Calling /\ BuilderCall(CreateFabEdgeInputChain(ruleSets), CreateFabEdgeInputChain(twin))
    \/ Calling /\ BuilderCall(CreateFabEdgeForwardChain(ruleSets), CreateFabEdgeForwardChain(twin))
    \/ Calling /\ BuilderCall(CreateFabEdgeNatOutgoingChain(ruleSets), CreateFabEdgeNatOutgoingChain(twin))
    \/ Calling /\ BuilderCall(PreparePostRoutingChain(ruleSets), PreparePostRoutingChain(twin))
    \/ Calling /\ BuilderCall(PrepareForwardChain(ruleSets), PrepareForwardChain(twin))
    \/ \E ipsetNames \in IPSetLists :
          Calling /\ BuilderCall(MaintainForwardRulesForIPSet(ruleSets, ipsetNames),
                         MaintainForwardRulesForIPSet(twin, ipsetNames))
    \/ \E subnets \in SubnetLists :
          Calling /\ BuilderCall(MaintainForwardRulesForSubnets(ruleSets, subnets),
                         MaintainForwardRulesForSubnets(twin, subnets))
    \/ \E subnets \in SubnetLists, names \in IPSetLists : \E ipsetName \in Range(names) :
          Calling /\ BuilderCall(MaintainNatOutgoingRulesForSubnets(ruleSets, subnets, ipsetName),
                         MaintainNatOutgoingRulesForSubnets(twin, subnets, ipsetName))
    \/ Calling /\ BuilderCall(AddPostRoutingRuleForKubernetes(ruleSets), AddPostRoutingRuleForKubernetes(twin))
    \/ \E names \in IPSetLists :
          Calling /\ BuilderCall(AddPostRoutingRulesForIPSet(ruleSets, names[1]),
                         AddPostRoutingRulesForIPSet(twin, names[1]))
    \/ Calling /\ BuilderCall(AllowIPSec(ruleSets), AllowIPSec(twin))
    \/ \E names \in IPSetLists :
          Calling /\ BuilderCall(AllowPostRoutingForIPSet(ruleSets, names[1], names[2]),
                         AllowPostRoutingForIPSet(twin, names[1], names[2]))
    \/ \E names \in IPSetLists :
          Calling /\ BuilderCall(MasqueradePostRoutingForIPSet(ruleSets, names[1], names[2]),
                         MasqueradePostRoutingForIPSet(twin, names[1], names[2]))

NextHelper ==
    \/ \E table \in CallTables, chain \in CallChains : CallCreateChain(table, chain)
    \/ \E table \in RuleTables, chain \in RuleChains, rule \in Rules :
          CallAppendUniqueRule(table, chain, rule)
    \/ CallClearAllRules
    \/ ReplaceRulesStart
    \/ RestoreCommit
    \/ \E exit \in ToolExits : ReplaceRulesReturn(exit)
    \/ CallHelper

SpecHelper == InitHelper /\ [][NextHelper]_vars

(***************************************************************************)
(* Properties of the rule builder.                                         *)
(***************************************************************************)
CountLine(text, line) == Cardinality({i \in 1..Len(text) : text[i] = line})

\* The block of a table in the serialized ruleset.
BlockOf(rs, table) == GenerateBlock(rs[findTable(rs, table)])

RulesOf(rs, table) == rs[findTable(rs, table)].rules

\* No argument of a rule of the table holds a space.
SpaceFree(rs, table) ==
    \A i \in 1..Len(RulesOf(rs, table)) :
        \A k \in 1..Len(RulesOf(rs, table)[i].rule) : Len(RulesOf(rs, table)[i].rule[k]) = 1

\* C12 as stated: after AppendUniqueRule(table, chain, args), calling it
\* again, once or twice, leaves the serialized ruleset as it is, and the
\* serialized table contains the rule line exactly once.
C12_RuleLineExactlyOnce ==
    [][\A table \in RuleTables, chain \in RuleChains, rule \in Rules :
          CallAppendUniqueRule(table, chain, rule) =>
              LET again == AppendUniqueRule(ruleSets', table, chain, rule)
              IN /\ GenerateInputFromRuleSet(again) = GenerateInputFromRuleSet(ruleSets')
                 /\ GenerateInputFromRuleSet(AppendUniqueRule(again, table, chain, rule))
                       = GenerateInputFromRuleSet(ruleSets')
                 /\ CountLine(BlockOf(ruleSets', table),
                              RuleLine([chain |-> chain, rule |-> rule])) = 1]_vars

\* C12 amended: after AppendUniqueRule(table, chain, args), calling it
\* again, once or twice, leaves the serialized ruleset as it is, the table
\* holds exactly one rule with that chain and argument vector, and the
\* serialized table contains the rule line exactly once when no argument of
\* a rule of the table holds a space.
C12_AppendUniqueRuleIdempotent ==
    [][\A table \in RuleTables, chain \in RuleChains, rule \in Rules :
          CallAppendUniqueRule(table, chain, rule) =>
              LET again == AppendUniqueRule(ruleSets', table, chain, rule)
                  rules == RulesOf(ruleSets', table)
              IN /\ GenerateInputFromRuleSet(again) = GenerateInputFromRuleSet(ruleSets')
                 /\ GenerateInputFromRuleSet(AppendUniqueRule(again, table, chain, rule))
                       = GenerateInputFromRuleSet(ruleSets')
                 /\ Cardinality({i \in 1..Len(rules) :
                                    rules[i] = [chain |-> chain, rule |-> rule]}) = 1
                 /\ SpaceFree(ruleSets', table) =>
                       CountLine(BlockOf(ruleSets', table),
                                 RuleLine([chain |-> chain, rule |-> rule])) = 1]_vars

\* Two calls have left one rule -j ACCEPT in filter/FABEDGE-FORWARD and
\* nothing else.
C12_Witness ==
    /\ calls = 2
    /\ ruleSets = AppendUniqueRule(NewRuleSets, TableFilter, ChainFabEdgeForward,
                                   Args(<<"-j", "ACCEPT">>))

\* The lines first+1 .. last-1 of a text.
Between(text, first, last) == [i \in 1..(last - first - 1) |-> text[first + i]]

\* The first COMMIT line after a line; past the end when there is none.
CommitAfter(text, first) ==
    IF \E c \in (first + 1)..Len(text) : text[c] = <<"COMMIT">>
    THEN CHOOSE c \in (first + 1)..Len(text) :
             /\ text[c] = <<"COMMIT">>
             /\ \A d \in (first + 1)..(c - 1) : text[d] # <<"COMMIT">>
    ELSE Len(text) + 1

\* Which lines may follow which: a table header, then chain declarations,
\* then rules, then COMMIT, then the next table header.
MayFollow(first, second) ==
    \/ first = "*" /\ second \in {":", "-A", "COMMIT"}
    \/ first = ":" /\ second \in {":", "-A", "COMMIT"}
    \/ first = "-A" /\ second \in {"-A", "COMMIT"}
    \/ first = "COMMIT" /\ second = "*"

\* C13: the serialized ruleset holds one block per table of the accumulator:
\* the table header once, then one declaration line for each chain of the
\* table, then one -A line for each rule of the table, then one COMMIT; the
\* number of COMMIT lines is the number of tables.
C13_OneBlockPerTable ==
    LET text == GenerateInputFromRuleSet(ruleSets)
        lines == 1..Len(text)
        present == {ruleSets[i].table : i \in 1..Len(ruleSets)}
    IN /\ Cardinality(present) = Len(ruleSets)
       /\ CountLine(text, <<"COMMIT">>) = Cardinality(present)
       /\ Cardinality({i \in lines : text[i][1] = "*"}) = Cardinality(present)
       /\ text # <<>> => text[1][1] = "*" /\ text[Len(text)] = <<"COMMIT">>
       /\ \A i \in lines : text[i][1] \in {"*", ":", "-A", "COMMIT"}
       /\ \A i \in lines \ {Len(text)} : MayFollow(text[i][1], text[i + 1][1])
       /\ \A t \in 1..Len(ruleSets) :
             /\ CountLine(text, <<"*", ruleSets[t].table>>) = 1
             /\ LET first == CHOOSE i \in lines : text[i] = <<"*", ruleSets[t].table>>
                    block == Between(text, first, CommitAfter(text, first))
                    chains == {i \in 1..Len(block) : block[i][1] = ":"}
                    rules == {i \in 1..Len(block) : block[i][1] = "-A"}
                IN /\ Cardinality(chains) = Len(ruleSets[t].chains)
                   /\ \A c \in 1..Len(ruleSets[t].chains) :
                         \E i \in chains : block[i][2] = ruleSets[t].chains[c]
                   /\ Cardinality(rules) = Len(ruleSets[t].rules)
                   /\ \A r \in 1..Len(ruleSets[t].rules) :
                         block[Len(ruleSets[t].chains) + r] = RuleLine(ruleSets[t].rules[r])

\* Two tables, the first with two chains and a rule, have been serialized.
C13_Witness ==
    /\ Len(ruleSets) = 2
    /\ Len(ruleSets[1].chains) = 2
    /\ Len(ruleSets[1].rules) >= 1
    /\ CountLine(GenerateInputFromRuleSet(ruleSets), <<"COMMIT">>) = 2

\* The chains iptables has built into its tables.
BuiltInChains ==
    [t \in Tables |->
        CASE t = "filter" -> {"INPUT", "OUTPUT", "FORWARD"}
          [] t = "nat" -> {"PREROUTING", "POSTROUTING", "OUTPUT"}
          [] t = "mangle" -> {"PREROUTING", "OUTPUT", "FORWARD", "INPUT", "POSTROUTING"}
          [] t = "raw" -> {"PREROUTING", "OUTPUT"}
          [] OTHER -> {}]

PolicyOf(table, chain) == IF chain \in BuiltInChains[table] THEN "ACCEPT" ELSE "-"

\* The chain names a caller registers: every built-in name and the chains of
\* FabEdge.
ChainNames ==
    UNION {BuiltInChains[t] : t \in Tables}
        \cup {ChainMasquerade, ChainFabEdgeInput, ChainFabEdgeForward,
              ChainFabEdgePostRouting, ChainFabEdgeNatOutgoing}

\* C14: whatever has been accumulated, and whichever chain of whichever
\* table is registered next, every chain of that table is declared in the
\* table's block as :<chain> <policy> [0:0], once, with policy ACCEPT when
\* the chain is built into the table and - when it is not.
C14_PolicyAcceptForBuiltInsOnly ==
    \A table \in Tables, chain \in ChainNames :
        LET rs == CreateChain(ruleSets, table, chain)
            block == BlockOf(rs, table)
            chains == rs[findTable(rs, table)].chains
        IN \A c \in 1..Len(chains) :
               /\ block[1 + c] = <<":", chains[c], PolicyOf(table, chains[c]), "[0:0]">>
               /\ \A i \in 1..Len(block) :
                     block[i][1] = ":" /\ block[i][2] = chains[c] => i = 1 + c

\* INPUT has been registered in filter, where it is built in, and in nat,
\* where it is not.
C14_Witness ==
    /\ findTable(ruleSets, TableFilter) # -1
    /\ findTable(ruleSets, TableNat) # -1
    /\ <<":", "INPUT", "ACCEPT", "[0:0]">> \in Range(BlockOf(ruleSets, TableFilter))
    /\ <<":", "INPUT", "-", "[0:0]">> \in Range(BlockOf(ruleSets, TableNat))

\* A sequence without the elements equal to x.
Without(q, x) == SelectSeq(q, LAMBDA y : y # x)

\* C15: a call CreateChain(table, chain) leaves the chain declared once in
\* the table, leaves every table's rules and other chains as they were, in
\* their order, writes the chain's declaration line into the table's block
\* whether or not the chain has a rule, and calling it again, once or twice,
\* changes nothing.
C15_CreateChainIdempotent ==
    [][\A table \in CallTables, chain \in CallChains :
          CallCreateChain(table, chain) =>
              LET was == findTable(ruleSets, table)
                  now == findTable(ruleSets', table)
              IN /\ now # -1
                 /\ Cardinality({c \in 1..Len(ruleSets'[now].chains) :
                                    ruleSets'[now].chains[c] = chain}) = 1
                 /\ CountLine(BlockOf(ruleSets', table), ChainLine(table, chain)) = 1
                 /\ Len(ruleSets') = IF was = -1 THEN Len(ruleSets) + 1 ELSE Len(ruleSets)
                 /\ \A t \in 1..Len(ruleSets) :
                       /\ ruleSets'[t].table = ruleSets[t].table
                       /\ ruleSets'[t].rules = ruleSets[t].rules
                       /\ Without(ruleSets'[t].chains, chain) = Without(ruleSets[t].chains, chain)
                       /\ ruleSets[t].table # table => ruleSets'[t] = ruleSets[t]
                 /\ was = -1 =>
                       /\ ruleSets'[now].rules = <<>>
                       /\ ruleSets'[now].chains = <<chain>>
                 /\ CreateChain(ruleSets', table, chain) = ruleSets'
                 /\ CreateChain(CreateChain(ruleSets', table, chain), table, chain) = ruleSets']_vars

\* INPUT is declared in the filter table, which has a rule, and no rule of
\* the table is in INPUT.
C15_Witness ==
    /\ findTable(ruleSets, TableFilter) # -1
    /\ ChainLine(TableFilter, ChainInput) \in Range(BlockOf(ruleSets, TableFilter))
    /\ RulesOf(ruleSets, TableFilter) # <<>>
    /\ \A r \in 1..Len(RulesOf(ruleSets, TableFilter)) :
           RulesOf(ruleSets, TableFilter)[r].chain # ChainInput

\* The tables that the latest invocation of the restore tool has committed.
CommittedByLatest == {t \in Tables : restore.invocations > 0 /\ live[t] = restore.invocations}

\* ReplaceRules is in cmd.Run or has just returned.
InOrJustAfterReplaceRules == restore.running \/ lastReplace.returned

\* C16 as stated: ReplaceRules starts the restore tool once, with --wait and
\* the serialized ruleset of all accumulated tables, and while it runs and
\* when it has returned, with or without an error, the live tables are all
\* still the old ones or are all those of the accumulator.
C16_NoPartialReplacement ==
    InOrJustAfterReplaceRules =>
        /\ restore.running =>
              /\ restore.args = <<"--wait">>
              /\ restore.stdin = GenerateInputFromRuleSet(ruleSets)
        /\ \/ CommittedByLatest = {}
           \/ CommittedByLatest = {ruleSets[t].table : t \in 1..Len(ruleSets)}

\* C16 without the atomicity: ReplaceRules starts the restore tool once, with
\* --wait and the serialized ruleset of all accumulated tables.
C16_OneInvocationWithFullInput ==
    [][ReplaceRulesStart =>
          /\ restore'.invocations = restore.invocations + 1
          /\ restore'.command = RestoreCommandOf(protocol)
          /\ restore'.args = <<"--wait">>
          /\ restore'.stdin = GenerateInputFromRuleSet(ruleSets)
          /\ Range(restore'.tables) = {ruleSets[t].table : t \in 1..Len(ruleSets)}]_vars

\* C17: when cmd.Run returns, ReplaceRules returns an error exactly when the
\* tool's exit status is not 0, the error holds the tool's stdout, its
\* stderr and the exit error, and h.ruleSets is as it was, so that calling
\* ReplaceRules again would submit the same input.
C17_ErrorIffToolFails ==
    [][\A exit \in ToolExits :
          ReplaceRulesReturn(exit) =>
              /\ lastReplace'.returned
              /\ lastReplace'.failed <=> exit.code # 0
              /\ lastReplace'.failed =>
                    /\ lastReplace'.stdout = exit.stdout
                    /\ lastReplace'.stderr = exit.stderr
                    /\ lastReplace'.cause = exit.code
              /\ ruleSets' = ruleSets
              /\ GenerateInputFromRuleSet(ruleSets') = restore.stdin]_vars

\* ReplaceRules has returned an error that holds what the tool wrote, after
\* the tool had committed one of the two tables submitted.
C17_Witness ==
    /\ lastReplace.returned
    /\ lastReplace.failed
    /\ lastReplace.cause = 1
    /\ lastReplace.stderr # ""
    /\ Len(ruleSets) = 2
    /\ Cardinality(CommittedByLatest) = 1

\* C18: right after ClearAllRules the serialized ruleset is empty, and from
\* then on, whatever is called, the serialized ruleset is the one that the
\* calls made since ClearAllRules give on a builder just created (twin).
C18_ClearedIsFresh ==
    /\ cleared => GenerateInputFromRuleSet(ruleSets) = GenerateInputFromRuleSet(twin)
    /\ cleared /\ twin = NewRuleSets =>
          /\ GenerateInputFromRuleSet(ruleSets) = <<>>
          /\ ruleSets = <<>>

\* ClearAllRules has been called, and the calls after it have added a table
\* again.
C18_Witness ==
    /\ cleared
    /\ calls = 3
    /\ ruleSets # <<>>
    /\ ~restore.running

(***************************************************************************)
(* The agent's argument map (types.AgentArgumentMap).  Its implementation  *)
(* is not among the sources: it is modelled from spec.md (4.4, 6, 8) and   *)
(* from what agent_argument_map_test.go expects of it.                     *)
(***************************************************************************)
\* Set and Delete calls made on the map.
MaxArgSteps == 3

\* The flag names in use, in ascending byte-wise order ("Z" is 0x5A, "e"
\* 0x65, "l" 0x6C, "m" 0x6D), which is the order of sort.Strings.
KeysAscending == <<"Zone", "enable-ipam", "enable-proxy", "log-level", "mtu">>

ArgValues == {"", "true", "True", "false", "3"}

\* argMap.Set(name, value)
Set(name, value) ==
    /\ argSteps < MaxArgSteps
    /\ argMap' = [n \in DOMAIN argMap \cup {name} |-> IF n = name THEN value ELSE argMap[n]]
    /\ argSteps' = argSteps + 1
    /\ argv' = NotCalled
    /\ UNCHANGED environ
    /\ UNCHANGED notArgMapVars

\* argMap.Delete(name)
Delete(name) ==
    /\ argSteps < MaxArgSteps
    /\ argMap' = [n \in DOMAIN argMap \ {name} |-> argMap[n]]
    /\ argSteps' = argSteps + 1
    /\ argv' = NotCalled
    /\ UNCHANGED environ
    /\ UNCHANGED notArgMapVars

\* Mutant: any value but the empty one counts.
IsIPAMEnabledOnAnyValue(m) == "enable-ipam" \in DOMAIN m /\ m["enable-ipam"] # ""

IsIPAMEnabled(m) == "enable-ipam" \in DOMAIN m /\ m["enable-ipam"] = "true"

IsProxyEnabled(m) == "enable-proxy" \in DOMAIN m /\ m["enable-proxy"] = "true"

\* Mutant: the flags stay in the order in which the map was iterated.
ArgumentArrayUnsorted(m, order) ==
    LET names == SelectSeq(order, LAMBDA n : n # "log-level")
    IN [i \in 1..Len(names) |-> <<"--", names[i], "=", m[names[i]]>>]
           \o (IF "log-level" \in DOMAIN m THEN <<<<"--", "v", "=", m["log-level"]>>>> ELSE <<>>)

\* ArgumentArray of a map that Go iterates in the given order: the names but
\* log-level are sorted, each is written as --<name>=<value> (here the four
\* parts of that string), and --v=<level> follows when log-level is set.
ArgumentArray(m, order) ==
    LET names == SelectSeq(KeysAscending,
                           LAMBDA n : n # "log-level" /\ n \in Range(order))
    IN [i \in 1..Len(names) |-> <<"--", names[i], "=", m[names[i]]>>]
           \o (IF "log-level" \in DOMAIN m THEN <<<<"--", "v", "=", m["log-level"]>>>> ELSE <<>>)

\* argMap.ArgumentArray() is called; the iteration over the map takes the
\* keys in any order.
CallArgumentArray(order) ==
    /\ ~argv.called
    /\ Len(order) = Cardinality(DOMAIN argMap)
    /\ Range(order) = DOMAIN argMap
    /\ argv' = [called |-> TRUE, array |-> ArgumentArray(argMap, order)]
    /\ UNCHANGED <<argMap, argSteps, environ>>
    /\ UNCHANGED notArgMapVars

InitArgs == ControllerIdle /\ MutexIdle /\ HelperIdle /\ ArgMapIdle /\ CertIdle

NextArgs ==
    \/ \E name \in Range(KeysAscending), value \in ArgValues : Set(name, value)
    \/ \E name \in Range(KeysAscending) : Delete(name)
    \/ \E order \in [1..Cardinality(DOMAIN argMap) -> DOMAIN argMap] :
          CallArgumentArray(order)

SpecArgs == InitArgs /\ [][NextArgs]_vars

\* The place of a flag name in the byte-wise order.
KeyRank(name) == CHOOSE i \in 1..Len(KeysAscending) : KeysAscending[i] = name

\* C19: what ArgumentArray returns has one element per entry of the map;
\* the entry of log-level is --v=<level> and is the last element; every
\* other entry is --<name>=<value>, and these stand in ascending byte-wise
\* order of their names, whatever the order in which the keys were set or
\* iterated; {enable-proxy=false, enable-ipam=true, log-level=3} gives
\* --enable-ipam=true, --enable-proxy=false, --v=3.
C19_ArgumentArrayOrder ==
    argv.called =>
        LET array == argv.array
            others == DOMAIN argMap \ {"log-level"}
        IN /\ Len(array) = Cardinality(DOMAIN argMap)
           /\ \A i \in 1..Len(array) : array[i][1] = "--" /\ array[i][3] = "="
           /\ \A name \in others :
                 \E i \in 1..Cardinality(others) : array[i] = <<"--", name, "=", argMap[name]>>
           /\ \A i \in 1..Cardinality(others) :
                 /\ array[i][2] \in others
                 /\ \A j \in (i + 1)..Cardinality(others) : KeyRank(array[i][2]) < KeyRank(array[j][2])
           /\ "log-level" \in DOMAIN argMap =>
                 array[Len(array)] = <<"--", "v", "=", argMap["log-level"]>>
           /\ argMap = [n \in {"enable-proxy", "enable-ipam", "log-level"} |->
                           CASE n = "enable-proxy" -> "false"
                             [] n = "enable-ipam" -> "true"
                             [] n = "log-level" -> "3"] =>
                 array = << <<"--", "enable-ipam", "=", "true">>,
                            <<"--", "enable-proxy", "=", "false">>,
                            <<"--", "v", "=", "3">> >>

\* ArgumentArray has been called on a map with log-level, a name that sorts
\* after it (mtu) and a name that sorts before it.
C19_Witness ==
    /\ argv.called
    /\ DOMAIN argMap = {"mtu", "log-level", "enable-ipam"}
    /\ argv.array[3][2] = "v"
    /\ argv.array[2][2] = "mtu"

\* C20: after any Set and Delete calls, IsIPAMEnabled holds exactly when
\* the map has enable-ipam with the value "true", and IsProxyEnabled exactly
\* when it has enable-proxy with the value "true"; a Set or Delete of any
\* other key changes neither answer.
C20_EnabledOnlyOnTrue ==
    /\ [](/\ IsIPAMEnabled(argMap) <=>
                \E name \in DOMAIN argMap : name = "enable-ipam" /\ argMap[name] = "true"
          /\ IsProxyEnabled(argMap) <=>
                \E name \in DOMAIN argMap : name = "enable-proxy" /\ argMap[name] = "true")
    /\ [][\A name \in Range(KeysAscending) :
             (Delete(name) \/ \E value \in ArgValues : Set(name, value)) =>
                 /\ name # "enable-ipam" => IsIPAMEnabled(argMap') = IsIPAMEnabled(argMap)
                 /\ name # "enable-proxy" => IsProxyEnabled(argMap') = IsProxyEnabled(argMap)]_vars

\* enable-ipam is set to "true" and enable-proxy to another string that is
\* not empty: IPAM is enabled, the proxy is not.
C20_Witness ==
    /\ DOMAIN argMap = {"enable-ipam", "enable-proxy"}
    /\ argMap["enable-ipam"] = "true"
    /\ argMap["enable-proxy"] = "True"
    /\ argSteps = 3
    /\ IsIPAMEnabled(argMap)
    /\ ~IsProxyEnabled(argMap)

(***************************************************************************)
(* Properties of the reconciler: skipped and changed nodes.                *)
(***************************************************************************)
\* The node exists, is not being deleted and has an IP and PodCIDRs.
Complete(node) == node.exists /\ ~node.deleting /\ node.ip # "" /\ node.podCIDRs # <<>>

\* C25: a reconcile of a node that exists, is not being deleted and has no
\* IP or no PodCIDRs, whatever CollectPodCIDRs is, leaves the node cache,
\* the node-name set and the connector endpoint as they were; a reconcile of
\* an uncached node that has both adds it to the cache and to the endpoint.
C25_SkipIsNotPermanent ==
    [][\A n \in NodeNames :
          onNodeRequest(n, FALSE) /\ apiNodes[n].exists /\ ~apiNodes[n].deleting =>
              /\ ~Complete(apiNodes[n]) =>
                    /\ ctl'.nodeCache = ctl.nodeCache
                    /\ ctl'.nodeNameSet = ctl.nodeNameSet
                    /\ ctl'.connectorEndpoint = ctl.connectorEndpoint
              /\ Complete(apiNodes[n]) /\ n \notin ctl.nodeNameSet =>
                    /\ n \in ctl'.nodeNameSet
                    /\ ctl'.nodeCache[n].IP = apiNodes[n].ip
                    /\ apiNodes[n].ip \in Range(ctl'.connectorEndpoint.NodeSubnets)
                    /\ collectPodCIDRs =>
                          Range(apiNodes[n].podCIDRs) \subseteq Range(ctl'.connectorEndpoint.Subnets)]_vars

\* With CollectPodCIDRs off, a node without PodCIDRs has been reconciled and
\* is not cached, while a node that has been reconciled with both, and was
\* not listed at startup, is.
C25_Witness ==
    /\ Running /\ mgr.watch /\ ~collectPodCIDRs /\ queue = {}
    /\ \E n \in NonEdgeNodes :
          /\ apiNodes[n].exists /\ apiNodes[n].podCIDRs = <<>> /\ apiNodes[n].ip # ""
          /\ n \notin ctl.nodeNameSet
    /\ \E n \in NonEdgeNodes : n \in ctl.nodeNameSet /\ n \notin listed

\* The environment gives an existing non-edge node another IP and other
\* PodCIDRs (an update of the node object); the watch enqueues the node.
NodeRenumber(n) ==
    /\ EnvStep
    /\ n \in NonEdgeNodes
    /\ Complete(apiNodes[n])
    /\ apiNodes' = [apiNodes EXCEPT
                       ![n].ip = IF n = "n1" THEN "10.0.1.1" ELSE "10.0.1.2",
                       ![n].podCIDRs = IF n = "n1" THEN <<"10.244.11.0/24">>
                                       ELSE <<"10.244.12.0/24">>]
    /\ apiNodes'[n] # apiNodes[n]
    /\ queue' = Enqueue(n)
    /\ UNCHANGED <<cm, store, configVars, mgr, ctl, crashed, historyVars>>
    /\ UNCHANGED notControllerVars

\* The controller in a cluster whose nodes are also renumbered.
SpecTrack == Init /\ [][Next \/ \E n \in NodeNames : NodeRenumber(n)]_vars

\* The non-edge nodes that exist, are not being deleted and have an IP and
\* PodCIDRs.
CurrentNodes == {n \in NonEdgeNodes : Complete(apiNodes[n])}

\* C24: whenever the manager runs, the watch is registered and no reconcile
\* request is queued, NodeSubnets holds the IPs of the current non-edge
\* nodes and, with CollectPodCIDRs, Subnets holds ProvidedSubnets and their
\* PodCIDRs; and a reconcile of a cached node that has an IP and PodCIDRs
\* leaves the node cached with that IP and, with CollectPodCIDRs, those
\* PodCIDRs.
C24_EndpointTracksNodes ==
    /\ [](Running /\ mgr.watch /\ queue = {} =>
             /\ Range(ctl.connectorEndpoint.NodeSubnets) = {apiNodes[n].ip : n \in CurrentNodes}
             /\ collectPodCIDRs =>
                   Range(ctl.connectorEndpoint.Subnets) =
                       Range(ProvidedSubnets)
                           \cup UNION {Range(apiNodes[n].podCIDRs) : n \in CurrentNodes})
    /\ [][\A n \in NonEdgeNodes :
             onNodeRequest(n, FALSE) /\ n \in ctl.nodeNameSet /\ Complete(apiNodes[n]) =>
                 /\ ctl'.nodeCache[n].IP = apiNodes[n].ip
                 /\ collectPodCIDRs => ctl'.nodeCache[n].PodCIDRs = apiNodes[n].podCIDRs]_vars

\* C24, the reconcile of a cached node alone: it leaves the node cached with
\* the IP and, with CollectPodCIDRs, the PodCIDRs the node has.
C24_ReconcileReplacesCachedNode ==
    [][\A n \in NonEdgeNodes :
          onNodeRequest(n, FALSE) /\ n \in ctl.nodeNameSet /\ Complete(apiNodes[n]) =>
              /\ ctl'.nodeCache[n].IP = apiNodes[n].ip
              /\ collectPodCIDRs => ctl'.nodeCache[n].PodCIDRs = apiNodes[n].podCIDRs]_vars

\* The rules of a table of the accumulator, none when it has no such table.
RulesIn(rs, table) == IF findTable(rs, table) = -1 THEN <<>> ELSE RulesOf(rs, table)

\* The subnets the helpers are called with.
CallSubnets == UNION {Range(subnets) : subnets \in SubnetLists}

\* A rule of FABEDGE-NAT-OUTGOING that returns traffic from a subnet: to an
\* address set, or to the subnet itself.
IsReturnRule(r, subnet) ==
    /\ r.chain = ChainFabEdgeNatOutgoing
    /\ \/ \E ipsetName \in UNION {Range(names) : names \in IPSetLists} :
             r.rule = Args(<<"-s", subnet, "-m", "set", "--match-set", ipsetName, "dst",
                             "-j", "RETURN">>)
       \/ r.rule = Args(<<"-s", subnet, "-d", subnet, "-j", "RETURN">>)

\* The rule of FABEDGE-NAT-OUTGOING that masquerades traffic from a subnet.
IsMasqueradeRule(r, subnet) ==
    /\ r.chain = ChainFabEdgeNatOutgoing
    /\ r.rule = Args(<<"-s", subnet, "-j", ChainMasquerade>>)

\* C26: in FABEDGE-NAT-OUTGOING every RETURN rule of a subnet (destination
\* in a named address set, destination the subnet itself) stands before the
\* MASQUERADE rule of that subnet, also when
\* MaintainNatOutgoingRulesForSubnets has been called several times, with
\* the same or with different address-set names, and ClearAllRules has not
\* been called in between.
C26_ReturnBeforeMasquerade ==
    LET rules == RulesIn(ruleSets, TableNat)
    IN \A subnet \in CallSubnets : \A i, j \in 1..Len(rules) :
          IsReturnRule(rules[i], subnet) /\ IsMasqueradeRule(rules[j], subnet) => i < j

\* One sequence begins another.
IsPrefix(short, long) ==
    /\ Len(short) <= Len(long)
    /\ \A i \in 1..Len(short) : long[i] = short[i]

\* C27: after any sequence of builder operations, in each table no chain
\* holds two rules with the same argument vector, the chain of every rule is
\* a registered chain of the table, and the -A lines of the table's block
\* are its rules in their order, each naming a chain the block declares;
\* unless ClearAllRules empties the accumulator an operation keeps every
\* table and every rule where it stands, so that rules are serialized in
\* the order of their first insertion; and AppendUniqueRule appends the
\* rule at the end of the table's rules unless the chain holds a rule with
\* the same argument vector already: a rule that differs from every rule of
\* the chain in an argument or in the number of arguments, or that is equal
\* to a rule of another chain only, is retained.
C27_UniqueRetainedOrdered ==
    /\ [](\A t \in 1..Len(ruleSets) :
             LET rules == ruleSets[t].rules
                 block == GenerateBlock(ruleSets[t])
             IN /\ \A i, j \in 1..Len(rules) :
                       rules[i].chain = rules[j].chain /\ rules[i].rule = rules[j].rule
                           => i = j
                /\ \A i \in 1..Len(rules) : rules[i].chain \in Range(ruleSets[t].chains)
                /\ \A i \in 1..Len(rules) :
                       /\ block[1 + Len(ruleSets[t].chains) + i] = RuleLine(rules[i])
                       /\ \E c \in 2..Len(block) :
                             /\ c < 1 + Len(ruleSets[t].chains) + i
                             /\ block[c] = ChainLine(ruleSets[t].table, rules[i].chain))
    /\ [][/\ ruleSets' # NewRuleSets =>
               \A t \in 1..Len(ruleSets) :
                   /\ t <= Len(ruleSets')
                   /\ ruleSets'[t].table = ruleSets[t].table
                   /\ IsPrefix(ruleSets[t].rules, ruleSets'[t].rules)
          /\ \A table \in RuleTables, chain \in RuleChains, rule \in Rules :
                CallAppendUniqueRule(table, chain, rule) =>
                    LET before == RulesIn(ruleSets, table)
                        entry == [chain |-> chain, rule |-> rule]
                    IN RulesIn(ruleSets', table) =
                           IF entry \in Range(before) THEN before ELSE Append(before, entry)]_vars

\* Three calls of AppendUniqueRule have left three rules in the filter
\* table: -j ACCEPT in FABEDGE-FORWARD, the same arguments as one argument in
\* FABEDGE-FORWARD, and -j ACCEPT in INPUT.
C27_Witness ==
    /\ calls = 3
    /\ RulesIn(ruleSets, TableFilter) =
           <<[chain |-> ChainFabEdgeForward, rule |-> Args(<<"-j", "ACCEPT">>)],
             [chain |-> ChainFabEdgeForward, rule |-> <<<<"-j", "ACCEPT">>>>],
             [chain |-> "INPUT", rule |-> Args(<<"-j", "ACCEPT">>)]>>

(***************************************************************************)
(* NewAgentArgumentMapFromEnv. A string of the environment is the sequence *)
(* of its characters, so that the prefix test, the split at "=", the       *)
(* lowercasing and the replacement of "_" are computed.                    *)
(***************************************************************************)
UpperCase == <<"A", "B", "C", "D", "E", "F", "G", "H", "I", "J", "K", "L", "M",
               "N", "O", "P", "Q", "R", "S", "T", "U", "V", "W", "X", "Y", "Z">>
LowerCase == <<"a", "b", "c", "d", "e", "f", "g", "h", "i", "j", "k", "l", "m",
               "n", "o", "p", "q", "r", "s", "t", "u", "v", "w", "x", "y", "z">>

\* "AGENT_ARG_"
AgentArgPrefix == <<"A", "G", "E", "N", "T", "_", "A", "R", "G", "_">>

\* The index of the first "=" of a string of the environment.
EqualsAt(env) == CHOOSE i \in 1..Len(env) : env[i] = "=" /\ \A j \in 1..(i - 1) : env[j] # "="

EnvName(env) == SubSeq(env, 1, EqualsAt(env) - 1)

EnvValue(env) == SubSeq(env, EqualsAt(env) + 1, Len(env))

\* The characters of a string, as the string.
RECURSIVE StringOf(_)
StringOf(chars) == IF chars = <<>> THEN "" ELSE Head(chars) \o StringOf(Tail(chars))

\* strings.ToLower and the replacement of "_" by "-", on one character.
FlagChar(c) ==
    IF \E i \in 1..26 : UpperCase[i] = c
    THEN LowerCase[CHOOSE i \in 1..26 : UpperCase[i] = c]
    ELSE IF c = "_" THEN "-" ELSE c

\* Mutant: the case of the name is kept.
FlagNameKeepingCase(name) ==
    LET rest == SubSeq(name, Len(AgentArgPrefix) + 1, Len(name))
    IN StringOf([i \in 1..Len(rest) |-> IF rest[i] = "_" THEN "-" ELSE rest[i]])

\* The flag name of a variable's name: the prefix removed, lowercased, "_"
\* replaced by "-".
FlagName(name) ==
    LET rest == SubSeq(name, Len(AgentArgPrefix) + 1, Len(name))
    IN StringOf([i \in 1..Len(rest) |-> FlagChar(rest[i])])

\* The loop over os.Environ(): the map after the strings of env, in order.
RECURSIVE NewAgentArgumentMapFromEnv(_)
NewAgentArgumentMapFromEnv(env) ==
    IF env = <<>> THEN [name \in {} |-> ""]
    ELSE LET m == NewAgentArgumentMapFromEnv(SubSeq(env, 1, Len(env) - 1))
             last == env[Len(env)]
         IN IF Len(last) >= Len(AgentArgPrefix)
                  /\ SubSeq(last, 1, Len(AgentArgPrefix)) = AgentArgPrefix
            THEN [n \in DOMAIN m \cup {FlagName(EnvName(last))} |->
                     IF n = FlagName(EnvName(last)) THEN StringOf(EnvValue(last)) ELSE m[n]]
            ELSE m

\* The names and the values the environment is set with.
EnvNames ==
    {AgentArgPrefix \o <<"M", "T", "U">>,
     AgentArgPrefix \o <<"m", "t", "u">>,
     AgentArgPrefix \o <<"L", "O", "G", "_", "L", "E", "V", "E", "L">>,
     AgentArgPrefix,
     <<"A", "G", "E", "N", "T", "_", "A", "R", "G", "S">>,
     <<"a", "g", "e", "n", "t", "_", "a", "r", "g", "_", "M", "T", "U">>,
     <<"M", "Y", "_">> \o AgentArgPrefix \o <<"M", "T", "U">>}
EnvValues == {<<>>, <<"3">>, <<"a", "=", "b">>}

\* os.Setenv(name, value): the variable's string is replaced where it
\* stands, or added at the end.
Setenv(name, value) ==
    /\ argSteps < MaxArgSteps
    /\ argSteps' = argSteps + 1
    /\ environ' = IF \E i \in 1..Len(environ) : EnvName(environ[i]) = name
                  THEN [i \in 1..Len(environ) |->
                           IF EnvName(environ[i]) = name THEN name \o <<"=">> \o value
                           ELSE environ[i]]
                  ELSE Append(environ, name \o <<"=">> \o value)
    /\ UNCHANGED <<argMap, argv>>
    /\ UNCHANGED notArgMapVars

\* argMap := NewAgentArgumentMapFromEnv()
CallNewAgentArgumentMapFromEnv ==
    /\ argMap' = NewAgentArgumentMapFromEnv(environ)
    /\ UNCHANGED <<argSteps, argv, environ>>
    /\ UNCHANGED notArgMapVars

SpecEnv ==
    InitArgs /\ [][\/ \E name \in EnvNames, value \in EnvValues : Setenv(name, value)
                   \/ CallNewAgentArgumentMapFromEnv]_vars

\* The flag names and the values expected of the names and values the
\* environment is set with; the other names have no flag.
ExpectedFlagName ==
    (AgentArgPrefix \o <<"M", "T", "U">> :> "mtu")
        @@ (AgentArgPrefix \o <<"m", "t", "u">> :> "mtu")
        @@ (AgentArgPrefix \o <<"L", "O", "G", "_", "L", "E", "V", "E", "L">> :> "log-level")
        @@ (AgentArgPrefix :> "")
ExpectedValue == (<<>> :> "") @@ (<<"3">> :> "3") @@ (<<"a", "=", "b">> :> "a=b")

\* The strings of an environment that hold a variable with a flag.
Prefixed(env) ==
    {i \in 1..Len(env) : \E name \in DOMAIN ExpectedFlagName, value \in EnvValues :
                            env[i] = name \o <<"=">> \o value}

\* The flag name and the value expected of such a string.
ExpectedEntry(str) ==
    LET nv == CHOOSE nv \in (DOMAIN ExpectedFlagName) \X EnvValues :
                  str = nv[1] \o <<"=">> \o nv[2]
    IN <<ExpectedFlagName[nv[1]], ExpectedValue[nv[2]]>>

\* C21 as stated: NewAgentArgumentMapFromEnv returns a map with exactly one
\* entry for each variable of the environment whose name starts with
\* AGENT_ARG_, also when its value is empty, and none for another variable;
\* the key is the name without the prefix, lowercased, with "-" for "_",
\* and the value is the variable's value.
C21_OneEntryPerVariable ==
    [][CallNewAgentArgumentMapFromEnv =>
          /\ Cardinality(DOMAIN argMap') = Cardinality(Prefixed(environ))
          /\ \A i \in Prefixed(environ) :
                /\ ExpectedEntry(environ[i])[1] \in DOMAIN argMap'
                /\ argMap'[ExpectedEntry(environ[i])[1]] = ExpectedEntry(environ[i])[2]
          /\ \A k \in DOMAIN argMap' :
                \E i \in Prefixed(environ) : ExpectedEntry(environ[i])[1] = k]_vars

\* C21 amended: NewAgentArgumentMapFromEnv returns a map whose keys are the
\* names, without the prefix, lowercased and with "-" for "_", of the
\* variables of the environment whose name starts with AGENT_ARG_, also of
\* those with an empty value, and no other key; the value of a key is the
\* value, unchanged, of the last variable of the environment with that key;
\* the map has one entry for each such variable when no two of them have
\* the same key.
C21_EntriesOfPrefixedVariables ==
    [][CallNewAgentArgumentMapFromEnv =>
          LET prefixed == Prefixed(environ)
              key(i) == ExpectedEntry(environ[i])[1]
              last(k) == CHOOSE i \in prefixed :
                             key(i) = k /\ \A j \in prefixed : key(j) = k => j <= i
          IN /\ DOMAIN argMap' = {key(i) : i \in prefixed}
             /\ \A k \in DOMAIN argMap' : argMap'[k] = ExpectedEntry(environ[last(k)])[2]
             /\ (\A i, j \in prefixed : key(i) = key(j) => i = j)
                    => Cardinality(DOMAIN argMap') = Cardinality(prefixed)]_vars

\* The map has been built from AGENT_ARG_LOG_LEVEL with an empty value,
\* AGENT_ARG_MTU with the value a=b and MY_AGENT_ARG_MTU.
C21_Witness ==
    /\ Len(environ) = 3
    /\ \E i \in 1..3 : EnvName(environ[i]) = <<"M", "Y", "_">> \o AgentArgPrefix \o <<"M", "T", "U">>
    /\ argMap = ("log-level" :> "" @@ "mtu" :> "a=b")

(***************************************************************************)
(* The certificate bootstrap: POST /api/sign-cert of the operator and the  *)
(* client's SignCertByToken. DER is a sequence of fields, PEM a sequence   *)
(* of lines, a header value a sequence of characters.                      *)
(***************************************************************************)
\* Requests made.
MaxPosts == 3

\* The tokens the operator admin has generated, and one it has not.
ValidTokens == {<<"t", "1">>, <<"t", "2">>}
OtherToken == <<"t", "3">>

\* "Bearer "
BearerPrefix == <<"B", "e", "a", "r", "e", "r", " ">>

\* Private keys and their public keys.
PrivateKeys == {"key1", "key2"}
PublicKeyOf(key) == IF key = "key1" THEN "pub1" ELSE "pub2"

CommonNames == {"test", "edge1"}

\* pem.EncodeToMemory: the BEGIN line, one line for each field, the END line.
EncodePEM(blockType, der) ==
    <<<<"-----BEGIN", blockType>>>>
        \o [i \in 1..Len(der) |-> <<"base64", der[i]>>]
        \o <<<<"-----END", blockType>>>>

\* What DecodePEM fails with.
NoDER == <<"error">>

\* certutil.DecodePEM: the fields between a BEGIN and an END line.
DecodePEM(pem) ==
    IF /\ Len(pem) >= 2
       /\ pem[1][1] = "-----BEGIN"
       /\ pem[Len(pem)] = <<"-----END", pem[1][2]>>
       /\ \A i \in 2..(Len(pem) - 1) : pem[i][1] = "base64"
    THEN [i \in 1..(Len(pem) - 2) |-> pem[i + 1][2]]
    ELSE NoDER

\* certutil.NewCertRequest: the PKCS#10 request of a key pair for a name,
\* signed with the private key.
NewCertRequest(commonName, key) == <<"PKCS#10", commonName, PublicKeyOf(key), key>>

\* x509.ParseCertificateRequest and CheckSignature.
IsCertRequest(der) ==
    /\ Len(der) = 4
    /\ der[1] = "PKCS#10"
    /\ der[4] \in PrivateKeys
    /\ der[3] = PublicKeyOf(der[4])

\* certManager.SignCert: the certificate of the CA for the request's name
\* and public key.
SignCert(csr) == <<"X.509", csr[2], csr[3], "CA">>

\* Mutant: the token is checked and never marked as used.
signCertKeepingToken(used, header, body, consume) ==
    LET token == SubSeq(header, Len(BearerPrefix) + 1, Len(header))
        csr == DecodePEM(body)
    IN IF ~(/\ Len(header) >= Len(BearerPrefix)
            /\ SubSeq(header, 1, Len(BearerPrefix)) = BearerPrefix
            /\ token \in ValidTokens \ used)
       THEN [status |-> 401, response |-> <<>>, used |-> used, cert |-> <<>>]
       ELSE IF ~IsCertRequest(csr)
       THEN [status |-> 400, response |-> <<>>, used |-> used, cert |-> <<>>]
       ELSE [status |-> 200, response |-> EncodePEM("CERTIFICATE", SignCert(csr)),
             used |-> used, cert |-> <<[token |-> token, cert |-> SignCert(csr)]>>]

\* The handler of POST /api/sign-cert: the token of the Authorization
\* header is verified, the body is decoded, the request is signed. Whether
\* a token presented with a malformed request counts as used is open.
signCert(used, header, body, consume) ==
    LET token == SubSeq(header, Len(BearerPrefix) + 1, Len(header))
        csr == DecodePEM(body)
    IN IF ~(/\ Len(header) >= Len(BearerPrefix)
            /\ SubSeq(header, 1, Len(BearerPrefix)) = BearerPrefix
            /\ token \in ValidTokens \ used)
       THEN [status |-> 401, response |-> <<>>, used |-> used, cert |-> <<>>]
       ELSE IF ~IsCertRequest(csr)
       THEN [status |-> 400, response |-> <<>>,
             used |-> IF consume THEN used \cup {token} ELSE used, cert |-> <<>>]
       ELSE [status |-> 200, response |-> EncodePEM("CERTIFICATE", SignCert(csr)),
             used |-> used \cup {token},
             cert |-> <<[token |-> token, cert |-> SignCert(csr)]>>]

\* The server receives one request and answers it.
Serve(method, header, body, consume, sent) ==
    LET answer == signCert(tokensUsed, header, body, consume)
        cert == DecodePEM(answer.response)
    IN /\ posts < MaxPosts
       /\ posts' = posts + 1
       /\ tokensUsed' = answer.used
       /\ issued' = issued \o answer.cert
       /\ exchange' = [method |-> method, header |-> header, body |-> body,
                       status |-> answer.status, response |-> answer.response,
                       sent |-> sent,
                       returned |-> IF sent = 1 /\ answer.status = 200 THEN cert ELSE <<>>,
                       failed |-> sent = 1 /\ answer.status # 200]
       /\ UNCHANGED <<controllerVars, mutexVars, helperVars, argMapVars>>

\* The bodies and Authorization headers of requests of any client: no
\* header, another scheme, a token that was never generated; no PEM, a PEM
\* block cut short, a PEM block that holds no request, a request whose
\* signature is not of its key.
MalformedBodies ==
    {<<>>,
     <<<<"-----BEGIN", "CERTIFICATE REQUEST">>, <<"base64", "PKCS#10">>>>,
     EncodePEM("CERTIFICATE REQUEST", <<"PKCS#10", "test">>),
     EncodePEM("CERTIFICATE REQUEST", <<"PKCS#10", "test", "pub1", "key2">>)}
WellFormedBodies ==
    {EncodePEM("CERTIFICATE REQUEST", NewCertRequest(commonName, key)) :
        commonName \in CommonNames, key \in PrivateKeys}
Headers ==
    {<<>>, <<"B", "a", "s", "i", "c", " ">> \o <<"t", "1">>, BearerPrefix \o OtherToken}
        \cup {BearerPrefix \o token : token \in ValidTokens}

\* POST /api/sign-cert by any client.
Post(header, body, consume) == Serve("POST", header, body, consume, 0)

\* Mutant: the token is sent without the scheme.
SignCertByTokenWithoutScheme(token, csr, consume) ==
    Serve("POST", token, EncodePEM("CERTIFICATE REQUEST", csr), consume, 1)

\* client.SignCertByToken(url, token, csr, certPool): one POST with the
\* token as bearer token and the PEM of the request as body; the PEM of the
\* response is decoded and returned.
SignCertByToken(token, csr, consume) ==
    Serve("POST", BearerPrefix \o token, EncodePEM("CERTIFICATE REQUEST", csr), consume, 1)

NextCert ==
    \/ \E header \in Headers, body \in MalformedBodies \cup WellFormedBodies,
          consume \in BOOLEAN : Post(header, body, consume)
    \/ \E token \in ValidTokens \cup {OtherToken}, commonName \in CommonNames,
          key \in PrivateKeys, consume \in BOOLEAN :
            SignCertByToken(token, NewCertRequest(commonName, key), consume)

\* Every component starts idle (InitArgs).
SpecCert == InitArgs /\ [][NextCert]_vars

\* The PEM text expected of a request and of its certificate.
ExpectedRequestPEM(commonName, key) ==
    <<<<"-----BEGIN", "CERTIFICATE REQUEST">>, <<"base64", "PKCS#10">>,
      <<"base64", commonName>>, <<"base64", PublicKeyOf(key)>>, <<"base64", key>>,
      <<"-----END", "CERTIFICATE REQUEST">>>>
ExpectedCertPEM(commonName, key) ==
    <<<<"-----BEGIN", "CERTIFICATE">>, <<"base64", "X.509">>,
      <<"base64", commonName>>, <<"base64", PublicKeyOf(key)>>, <<"base64", "CA">>,
      <<"-----END", "CERTIFICATE">>>>

\* C22: over any sequence of requests to POST /api/sign-cert, a request
\* whose bearer token matches no token gets 401 and no certificate; a
\* request that replays a token a certificate was issued for gets 401 and
\* no certificate; a request with a token that is valid and not yet used
\* gets 200 and the signed certificate of its request when the request is
\* well formed, 400 and no certificate when it is malformed; at most one
\* certificate is ever issued per token, and none without a valid token.
C22_SignCertStatuses ==
    /\ [](\A i, j \in 1..Len(issued) :
             /\ issued[i].token \in ValidTokens
             /\ issued[i].token = issued[j].token => i = j)
    /\ [][posts' = posts + 1 =>
             LET req == exchange'
                 matches == \E t \in ValidTokens : req.header = BearerPrefix \o t
                 replayed == \E i \in 1..Len(issued) :
                                req.header = BearerPrefix \o issued[i].token
                 unused == \E t \in ValidTokens \ tokensUsed :
                              req.header = BearerPrefix \o t
             IN /\ ~matches \/ replayed =>
                       req.status = 401 /\ req.response = <<>> /\ issued' = issued
                /\ unused /\ req.body \in MalformedBodies =>
                       req.status = 400 /\ req.response = <<>> /\ issued' = issued
                /\ unused =>
                       \A commonName \in CommonNames, key \in PrivateKeys :
                           req.body = ExpectedRequestPEM(commonName, key) =>
                               /\ req.status = 200
                               /\ req.response = ExpectedCertPEM(commonName, key)
                               /\ Len(issued') = Len(issued) + 1
                               /\ req.header = BearerPrefix \o issued'[Len(issued')].token]_vars

\* A certificate has been issued for the token t1, and a later request
\* with that token and a well-formed request has got 401.
C22_Witness ==
    /\ \E i \in 1..Len(issued) : issued[i].token = <<"t", "1">>
    /\ exchange.header = BearerPrefix \o <<"t", "1">>
    /\ exchange.body = ExpectedRequestPEM("edge1", "key2")
    /\ exchange.status = 401

\* C23: SignCertByToken issues a single POST whose Authorization header is
\* "Bearer " and the token it was given and whose body is the PEM encoding
\* of the request it was given; the certificate it returns has the
\* CommonName of the request and the public key of the key pair that
\* produced the request, and it returns one when the token is valid and
\* not yet used.
C23_SignCertByTokenRoundTrip ==
    [][\A token \in ValidTokens \cup {OtherToken}, commonName \in CommonNames,
          key \in PrivateKeys, consume \in BOOLEAN :
          SignCertByToken(token, NewCertRequest(commonName, key), consume) =>
              /\ posts' = posts + 1
              /\ exchange'.sent = 1
              /\ exchange'.method = "POST"
              /\ Len(exchange'.header) >= 7
              /\ SubSeq(exchange'.header, 1, 7) = <<"B", "e", "a", "r", "e", "r", " ">>
              /\ SubSeq(exchange'.header, 8, Len(exchange'.header)) = token
              /\ exchange'.body = ExpectedRequestPEM(commonName, key)
              /\ exchange'.returned # <<>> =>
                    /\ exchange'.returned[2] = commonName
                    /\ exchange'.returned[3] = PublicKeyOf(key)
              /\ token \in ValidTokens \ tokensUsed =>
                    exchange'.returned # <<>> /\ ~exchange'.failed]_vars

\* SignCertByToken has returned the certificate of the name test and the
\* public key of key1, got with the token t2.
C23_Witness ==
    /\ exchange.sent = 1
    /\ exchange.header = BearerPrefix \o <<"t", "2">>
    /\ exchange.status = 200
    /\ exchange.returned = <<"X.509", "test", "pub1", "CA">>

=============================================================================
